---- MODULE Spec2Model ----
(***************************************************************************)
(* Verification model of the REE Atlas prospectivity engine                *)
(* (apps/api/app): the run lifecycle (tasks.process_run driving            *)
(* pipeline.run.run_pipeline and the runs / targets tables of db.py), the  *)
(* download cache of pipeline.stac._localize_asset, the evidence chip      *)
(* selection and the target extraction of pipeline.targets, the scorers    *)
(* and the percentile normalizer of pipeline.scoring, the target records  *)
(* (identifier, CRS, distances) of pipeline.targets, the files the         *)
(* concurrent runs write, the UTM CRS of a centroid (pipeline.targets and  *)
(* pipeline.utils), the endpoints of main.py that touch the row of a run,  *)
(* and the threshold selection of the extract_targets stage.               *)
(***************************************************************************)
EXTENDS Integers, Sequences, FiniteSets, TLC

(***************************************************************************)
(* Generic helpers.                                                        *)
(***************************************************************************)
Range(s) == {s[i] : i \in DOMAIN s}

IsPrefix(s, t) == /\ Len(s) <= Len(t)
                  /\ \A i \in 1..Len(s) : s[i] = t[i]

(***************************************************************************)
(* Bounds of the model.                                                    *)
(***************************************************************************)
\* largest number of targets one run extracts and persists
MaxTargets == 1
\* number of runs that localize the same asset href at the same time
NumProcs == 2
\* number of chunks iter_content delivers for the asset
NChunks == 2
\* largest fraction metric of an evidence map, in the unit of the metrics
MaxMetric == 2
\* rows and columns of the score raster
GridH == 2
GridW == 2
\* ground area of a pixel of the first row, in area units
BaseArea == 4
\* pixels of the raster a scorer rescales by percentile
NPixels == 2
\* pixels of the raster given to the percentile normalizer alone
NormLen == 3

(***************************************************************************)
(* State.                                                                  *)
(*                                                                         *)
(* runs table row of one run (db.py): status, error, progress; the number  *)
(* of rows of the targets table that belong to the run: targetRows.        *)
(* process_run / run_pipeline: pc is the position of the worker, stage the *)
(* index of the pipeline stage it is in, exc the exception caught by       *)
(* process_run's except clause, notified the stage names the progress      *)
(* callback was called with.  params is the request (mode, params,         *)
(* geology_geojson); sources is what the imagery and the terrain source    *)
(* answered; s2, dem, osm, dist, geologyMask, hweights (the weights read   *)
(* from params by hardrock_score), scoreMeta, nTargets are the locals of   *)
(* run_pipeline.  dbParams is the params column of the row: the request's  *)
(* params as stored by create_run_endpoint (the empty sequence), wrapped   *)
(* once by every UPDATE that stores {"input": ..., <key>: ...}, the key    *)
(* appended.                                                               *)
(***************************************************************************)
VARIABLES status, error, progress, targetRows,
          pc, stage, exc, notified,
          params, sources, s2, dem, osm, dist, geologyMask, hweights,
          scoreMeta, nTargets, dbParams

\* the download cache, the evidence chips, the target extraction, the
\* scorers, the normalizer and the target records: their variables are
\* described with their actions below
VARIABLES cacheExists, cacheFile, cpc, coff, cenabled, chit, cread
VARIABLES evidence, cmode, chips, chipPc
VARIABLES score, threshold, minArea, areaStep, tpc, targets
VARIABLES sMode, sLayers, sRaster, sGeology, sWeights, sPc, sScore, sResolved
VARIABLES nData, nLow, nHigh, nPc, nScaled
VARIABLES xScore, xCrs, xRoads, xRivers, xRuns, xFirst, xSecond, xRaised
VARIABLES wsParams, wsStage, wsFiles
VARIABLES uLon, uLat, uTargets, uUtils
VARIABLES lastRead
VARIABLES gScore, gMethod, gValue, gThreshold, gTargets, gPc

runVars == <<status, error, progress, targetRows, pc, stage, exc, notified,
             params, sources, s2, dem, osm, dist, geologyMask, hweights,
             scoreMeta, nTargets, dbParams>>
cacheVars == <<cacheExists, cacheFile, cpc, coff, cenabled, chit, cread>>
chipVars == <<evidence, cmode, chips, chipPc>>
targetVars == <<score, threshold, minArea, areaStep, tpc, targets>>
scorerVars == <<sMode, sLayers, sRaster, sGeology, sWeights, sPc, sScore,
                sResolved>>
normVars == <<nData, nLow, nHigh, nPc, nScaled>>
recordVars == <<xScore, xCrs, xRoads, xRivers, xRuns, xFirst, xSecond, xRaised>>
workspaceVars == <<wsParams, wsStage, wsFiles>>
utmVars == <<uLon, uLat, uTargets, uUtils>>
apiVars == <<lastRead>>
stageVars == <<gScore, gMethod, gValue, gThreshold, gTargets, gPc>>
vars == <<runVars, cacheVars, chipVars, targetVars,
           scorerVars, normVars, recordVars, workspaceVars, utmVars, apiVars, stageVars>>

otherThanRun == <<cacheVars, chipVars, targetVars, scorerVars,
                   normVars, recordVars, workspaceVars, utmVars, apiVars, stageVars>>
otherThanCache == <<runVars, chipVars, targetVars, scorerVars,
                     normVars, recordVars, workspaceVars, utmVars, apiVars, stageVars>>
otherThanChips == <<runVars, cacheVars, targetVars, scorerVars,
                     normVars, recordVars, workspaceVars, utmVars, apiVars, stageVars>>
otherThanTargets == <<runVars, cacheVars, chipVars, scorerVars,
                       normVars, recordVars, workspaceVars, utmVars, apiVars, stageVars>>
otherThanScorer == <<runVars, cacheVars, chipVars, targetVars,
                      normVars, recordVars, workspaceVars, utmVars, apiVars, stageVars>>
otherThanNorm == <<runVars, cacheVars, chipVars, targetVars,
                    scorerVars, recordVars, workspaceVars, utmVars, apiVars, stageVars>>
otherThanRecords == <<runVars, cacheVars, chipVars, targetVars,
                       scorerVars, normVars, workspaceVars, utmVars, apiVars, stageVars>>
otherThanWorkspace == <<runVars, cacheVars, chipVars, targetVars, scorerVars, normVars, recordVars, utmVars, apiVars, stageVars>>
otherThanUtm == <<runVars, cacheVars, chipVars, targetVars, scorerVars, normVars, recordVars, workspaceVars, apiVars, stageVars>>
otherThanApi == <<runVars, cacheVars, chipVars, targetVars, scorerVars, normVars, recordVars, workspaceVars, utmVars, stageVars>>
otherThanStage == <<runVars, cacheVars, chipVars, targetVars, scorerVars, normVars, recordVars, workspaceVars, utmVars, apiVars>>

(***************************************************************************)
(* Stage names.                                                            *)
(***************************************************************************)
\* run_pipeline with the OSM stage announced before the DEM stage
PipelineStages_M ==
    <<"fetch_imagery", "fetch_osm", "fetch_dem", "compute_features", "score",
      "extract_targets", "generate_outputs">>

\* the order of the progress_cb calls of run_pipeline
PipelineStages ==
    <<"fetch_imagery", "fetch_dem", "fetch_osm", "compute_features", "score",
      "extract_targets", "generate_outputs">>

\* the keys of _progress_template(), in the order the dict is written
TemplateSteps ==
    <<"fetch_imagery", "fetch_dem", "fetch_osm", "compute_features", "score",
      "extract_targets", "generate_outputs">>

_progress_template == [k \in Range(TemplateSteps) |-> "pending"]

\* the list without its last stage
CompletedSteps_M ==
    <<"fetch_imagery", "fetch_dem", "fetch_osm", "compute_features", "score",
      "extract_targets">>

\* the list process_run marks "done" before the final update_run
CompletedSteps ==
    <<"fetch_imagery", "fetch_dem", "fetch_osm", "compute_features", "score",
      "extract_targets", "generate_outputs">>

\* _update_progress with the elif branch left out
_update_progress_M(prog, step) ==
    [k \in DOMAIN prog |-> IF k = step THEN "running" ELSE prog[k]]

\* _update_progress: the new stage runs, the stage that ran is done
_update_progress(prog, step) ==
    [k \in DOMAIN prog |->
        IF k = step THEN "running"
        ELSE IF prog[k] = "running" THEN "done"
        ELSE prog[k]]

(***************************************************************************)
(* Exception messages.                                                     *)
(***************************************************************************)
NoException == "none"
NoSentinelItems == "No Sentinel-2 items found for AOI/time range"
NoDemItems == "No DEM items found for AOI"
ZeroDivision == "float division by zero"
Unexpected == "unexpected error"

(***************************************************************************)
(* Pure pieces of the pipeline used by the run.                            *)
(***************************************************************************)
\* the constant "infinitely far" distance of distance_raster
SentinelDistance == 1000000

\* load_sentinel_composite without the check of the search result
load_sentinel_composite_M(hasItems) ==
    [raised |-> NoException, value |-> "composite"]

\* load_sentinel_composite: raises when the search returns no item
load_sentinel_composite(hasItems) ==
    IF ~hasItems THEN [raised |-> NoSentinelItems, value |-> "unset"]
    ELSE [raised |-> NoException, value |-> "composite"]

\* load_dem: every collection without items is skipped, then RuntimeError
load_dem(hasItems) ==
    IF ~hasItems THEN [raised |-> NoDemItems, value |-> "unset"]
    ELSE [raised |-> NoException, value |-> "stac"]

\* run_pipeline lines 159-167: any exception of the DEM source is replaced
\* by a flat all-zero DEM
DemOrFallback(useSynth, hasItems) ==
    IF useSynth THEN "synthetic"
    ELSE IF load_dem(hasItems).raised # NoException THEN "flat"
    ELSE load_dem(hasItems).value

\* distance_raster: constant sentinel raster without CRS or without lines,
\* else the Euclidean distance transform of the rasterized lines
distance_raster(nonEmpty, hasCrs) ==
    IF ~hasCrs THEN [kind |-> "constant", value |-> SentinelDistance]
    ELSE IF ~nonEmpty THEN [kind |-> "constant", value |-> SentinelDistance]
    ELSE [kind |-> "edt", value |-> 0]

\* _rasterize_geology: None without geology or without a keyword match
_rasterize_geology(geology) ==
    IF geology = "absent" THEN "None"
    ELSE IF geology = "no_match" THEN "None"
    ELSE "mask"

\* weights of the hardrock request, in integer units
WeightValues == {0, 1}
HardrockWeightRecords ==
    [lineaments : WeightValues, relief : WeightValues, exposure : WeightValues,
     geology_boost : {1}]

\* a rational number num / den
Frac(n, d) == [num |-> n, den |-> d]

\* no weights resolved (yet)
NoResolved ==
    [lineaments |-> Frac(0, 1), relief |-> Frac(0, 1), exposure |-> Frac(0, 1),
     geology_boost |-> Frac(0, 1)]

\* the weights applied as given also without a geology layer: no division
HardrockResolvedWeights_M(weights, geoMask) ==
    [raised |-> NoException,
     weights |-> [lineaments |-> Frac(weights.lineaments, 1),
                  relief |-> Frac(weights.relief, 1),
                  exposure |-> Frac(weights.exposure, 1),
                  geology_boost |-> IF geoMask = "None" THEN Frac(0, 1)
                                    ELSE Frac(weights.geology_boost, 1)]]

\* hardrock_score lines 120-132 and 142-149: the weights applied.
\* Without a geology layer each weight is divided by the three-term total;
\* Python raises ZeroDivisionError when that total is 0.
HardrockResolvedWeights(weights, geoMask) ==
    IF geoMask = "None" THEN
        LET total == weights.lineaments + weights.relief + weights.exposure IN
        IF total = 0 THEN [raised |-> ZeroDivision, weights |-> NoResolved]
        ELSE [raised |-> NoException,
              weights |-> [lineaments |-> Frac(weights.lineaments, total),
                           relief |-> Frac(weights.relief, total),
                           exposure |-> Frac(weights.exposure, total),
                           geology_boost |-> Frac(0, 1)]]
    ELSE [raised |-> NoException,
          weights |-> [lineaments |-> Frac(weights.lineaments, 1),
                       relief |-> Frac(weights.relief, 1),
                       exposure |-> Frac(weights.exposure, 1),
                       geology_boost |-> Frac(weights.geology_boost, 1)]]

(***************************************************************************)
(* The run: create_run_endpoint has stored the row (status queued, the     *)
(* progress template) and scheduled process_run.                           *)
(***************************************************************************)
RunRequests ==
    [mode : {"coastal", "hardrock"},
     use_synthetic : BOOLEAN,
     geology : {"absent", "no_match", "match"}]

NoWeights == [lineaments |-> 0, relief |-> 0, exposure |-> 0, geology_boost |-> 0]
NoOsm == [roads |-> FALSE, rivers |-> FALSE, coast |-> FALSE]
NoDist == [k \in {"roads", "rivers", "coast"} |-> [kind |-> "unset", value |-> 0]]

RunInit ==
    /\ status = "queued"
    /\ error = NoException
    /\ progress = _progress_template
    /\ targetRows = 0
    /\ pc = "queued"
    /\ stage = 0
    /\ exc = NoException
    /\ notified = <<>>
    /\ params \in RunRequests
    /\ dbParams = <<>>
    /\ sources = [imagery |-> "unasked", terrain |-> "unasked"]
    /\ s2 = "unset"
    /\ dem = "unset"
    /\ osm = NoOsm
    /\ dist = NoDist
    /\ geologyMask = "unset"
    /\ hweights = NoWeights
    /\ scoreMeta = [raised |-> NoException, weights |-> NoResolved]
    /\ nTargets = 0

pipelineLocals ==
    <<sources, s2, dem, osm, dist, geologyMask, hweights, scoreMeta, nTargets>>

\* an exception leaves the try block for the except clause of process_run
Raise(msg) ==
    /\ pc' = "except"
    /\ exc' = msg

\* the statement after a stage's work: the next progress_cb, or the return
StageDone ==
    /\ exc' = exc
    /\ IF stage < Len(PipelineStages)
       THEN pc' = "notify" /\ stage' = stage + 1
       ELSE pc' = "insert_targets" /\ stage' = stage

\* process_run line 13: update_run(run_id, status="running")
SetRunning ==
    /\ pc = "queued"
    /\ \/ /\ status' = "running"
          /\ pc' = "enter"
          /\ exc' = exc
       \/ /\ Raise(Unexpected)
          /\ status' = status
    /\ UNCHANGED <<error, progress, targetRows, stage, notified, params, dbParams>>
    /\ UNCHANGED pipelineLocals
    /\ UNCHANGED otherThanRun

\* run_pipeline lines 120-123: the run directory and aoi.geojson
PipelineEnter ==
    /\ pc = "enter"
    /\ \/ /\ pc' = "notify"
          /\ stage' = 1
          /\ exc' = exc
       \/ /\ Raise(Unexpected)
          /\ stage' = stage
    /\ UNCHANGED <<status, error, progress, targetRows, notified, params, dbParams>>
    /\ UNCHANGED pipelineLocals
    /\ UNCHANGED otherThanRun

\* progress_cb(step): _update_progress reads the row and writes the progress
Notify ==
    /\ pc = "notify"
    /\ notified' = Append(notified, PipelineStages[stage])
    /\ \/ /\ progress' = _update_progress(progress, PipelineStages[stage])
          /\ pc' = "work"
          /\ exc' = exc
       \/ /\ Raise(Unexpected)
          /\ progress' = progress
    /\ UNCHANGED <<status, error, targetRows, stage, params, dbParams>>
    /\ UNCHANGED pipelineLocals
    /\ UNCHANGED otherThanRun

AtWork(name) == pc = "work" /\ PipelineStages[stage] = name

\* run_pipeline lines 128-154: the imagery and the indices
FetchImagery ==
    /\ AtWork("fetch_imagery")
    /\ \E hasItems \in BOOLEAN, fault \in BOOLEAN :
         /\ LET got == IF params.use_synthetic
                       THEN [raised |-> NoException, value |-> "synthetic"]
                       ELSE load_sentinel_composite(hasItems)
            IN IF got.raised # NoException
               THEN Raise(got.raised) /\ s2' = s2 /\ stage' = stage
               ELSE IF fault
               THEN Raise(Unexpected) /\ s2' = got.value /\ stage' = stage
               ELSE s2' = got.value /\ StageDone
         /\ sources' = [sources EXCEPT !.imagery =
                           IF params.use_synthetic THEN "unasked"
                           ELSE IF hasItems THEN "items" ELSE "none"]
    /\ UNCHANGED <<status, error, progress, targetRows, notified, params, dbParams>>
    /\ UNCHANGED <<dem, osm, dist, geologyMask, hweights, scoreMeta, nTargets>>
    /\ UNCHANGED otherThanRun

\* run_pipeline lines 159-175: the DEM (or its flat fallback), slope, hillshade
FetchDem ==
    /\ AtWork("fetch_dem")
    /\ \E hasItems \in BOOLEAN, fault \in BOOLEAN :
         /\ dem' = DemOrFallback(params.use_synthetic, hasItems)
         /\ sources' = [sources EXCEPT !.terrain =
                           IF params.use_synthetic THEN "unasked"
                           ELSE IF hasItems THEN "items" ELSE "none"]
         /\ IF fault THEN Raise(Unexpected) /\ stage' = stage ELSE StageDone
    /\ UNCHANGED <<status, error, progress, targetRows, notified, params, dbParams>>
    /\ UNCHANGED <<s2, osm, dist, geologyMask, hweights, scoreMeta, nTargets>>
    /\ UNCHANGED otherThanRun

\* run_pipeline lines 180-192: roads, rivers, coastline (empty sets when the
\* request fails) and their distance rasters
FetchOsm ==
    /\ AtWork("fetch_osm")
    /\ \E got \in [roads : BOOLEAN, rivers : BOOLEAN, coast : BOOLEAN],
          fault \in BOOLEAN :
         /\ osm' = got
         /\ dist' = [k \in {"roads", "rivers", "coast"} |->
                        distance_raster(got[k], TRUE)]
         /\ IF fault THEN Raise(Unexpected) /\ stage' = stage ELSE StageDone
    /\ UNCHANGED <<status, error, progress, targetRows, notified, params, dbParams>>
    /\ UNCHANGED <<sources, s2, dem, geologyMask, hweights, scoreMeta, nTargets>>
    /\ UNCHANGED otherThanRun

\* run_pipeline lines 197-203: geology mask and lineament density
ComputeFeatures ==
    /\ AtWork("compute_features")
    /\ geologyMask' = _rasterize_geology(params.geology)
    /\ \E fault \in BOOLEAN :
         IF fault THEN Raise(Unexpected) /\ stage' = stage ELSE StageDone
    /\ UNCHANGED <<status, error, progress, targetRows, notified, params, dbParams>>
    /\ UNCHANGED <<sources, s2, dem, osm, dist, hweights, scoreMeta, nTargets>>
    /\ UNCHANGED otherThanRun

\* run_pipeline lines 208-235: coastal_score or hardrock_score
Score ==
    /\ AtWork("score")
    /\ \E weights \in HardrockWeightRecords, fault \in BOOLEAN :
         /\ hweights' = IF params.mode = "coastal" THEN hweights ELSE weights
         /\ LET meta == IF params.mode = "coastal"
                        THEN [raised |-> NoException, weights |-> NoResolved]
                        ELSE HardrockResolvedWeights(weights, geologyMask)
            IN IF meta.raised # NoException
               THEN Raise(meta.raised) /\ scoreMeta' = scoreMeta /\ stage' = stage
               ELSE IF fault
               THEN Raise(Unexpected) /\ scoreMeta' = meta /\ stage' = stage
               ELSE scoreMeta' = meta /\ StageDone
    /\ UNCHANGED <<status, error, progress, targetRows, notified, params, dbParams>>
    /\ UNCHANGED <<sources, s2, dem, osm, dist, geologyMask, nTargets>>
    /\ UNCHANGED otherThanRun

\* run_pipeline lines 240-258: threshold and extract_targets
ExtractTargets ==
    /\ AtWork("extract_targets")
    /\ \E n \in 0..MaxTargets, fault \in BOOLEAN :
         /\ nTargets' = n
         /\ IF fault THEN Raise(Unexpected) /\ stage' = stage ELSE StageDone
    /\ UNCHANGED <<status, error, progress, targetRows, notified, params, dbParams>>
    /\ UNCHANGED <<sources, s2, dem, osm, dist, geologyMask, hweights, scoreMeta>>
    /\ UNCHANGED otherThanRun

\* run_pipeline lines 263-343: overlay, previews, exports, report, result
GenerateOutputs ==
    /\ AtWork("generate_outputs")
    /\ \E fault \in BOOLEAN :
         IF fault THEN Raise(Unexpected) /\ stage' = stage ELSE StageDone
    /\ UNCHANGED <<status, error, progress, targetRows, notified, params, dbParams>>
    /\ UNCHANGED pipelineLocals
    /\ UNCHANGED otherThanRun

\* process_run lines 15-33: insert_targets commits all rows or none
InsertTargets ==
    /\ pc = "insert_targets"
    /\ \/ /\ targetRows' = nTargets
          /\ pc' = "update_completed"
          /\ exc' = exc
       \/ /\ Raise(Unexpected)
          /\ targetRows' = targetRows
    /\ UNCHANGED <<status, error, progress, stage, notified, params, dbParams>>
    /\ UNCHANGED pipelineLocals
    /\ UNCHANGED otherThanRun

\* process_run lines 34-47 with status="completed" left out of the UPDATE
UpdateCompleted_M ==
    /\ pc = "update_completed"
    /\ \/ /\ progress' = [k \in Range(CompletedSteps) |-> "done"]
          /\ dbParams' = <<"score_meta">>
          /\ pc' = "done"
          /\ exc' = exc
          /\ status' = status
       \/ /\ Raise(Unexpected)
          /\ UNCHANGED <<status, progress, dbParams>>
    /\ UNCHANGED <<error, targetRows, stage, notified, params>>
    /\ UNCHANGED pipelineLocals
    /\ UNCHANGED otherThanRun

\* process_run lines 34-47: one UPDATE sets status completed, every stage
\* done and params = {"input": params, "score_meta": ...}
UpdateCompleted ==
    /\ pc = "update_completed"
    /\ \/ /\ status' = "completed"
          /\ progress' = [k \in Range(CompletedSteps) |-> "done"]
          /\ dbParams' = <<"score_meta">>
          /\ pc' = "done"
          /\ exc' = exc
       \/ /\ Raise(Unexpected)
          /\ UNCHANGED <<status, progress, dbParams>>
    /\ UNCHANGED <<error, targetRows, stage, notified, params>>
    /\ UNCHANGED pipelineLocals
    /\ UNCHANGED otherThanRun

\* process_run lines 48-49, with the status forgotten in the UPDATE
HandleException_M ==
    /\ pc = "except"
    /\ error' = exc
    /\ pc' = "done"
    /\ UNCHANGED <<status, progress, targetRows, stage, exc, notified, params, dbParams>>
    /\ UNCHANGED pipelineLocals
    /\ UNCHANGED otherThanRun

\* process_run lines 48-49: update_run(run_id, status="failed", error=str(e))
HandleException ==
    /\ pc = "except"
    /\ status' = "failed"
    /\ error' = exc
    /\ pc' = "done"
    /\ UNCHANGED <<progress, targetRows, stage, exc, notified, params, dbParams>>
    /\ UNCHANGED pipelineLocals
    /\ UNCHANGED otherThanRun

RunNext ==
    \/ SetRunning
    \/ PipelineEnter
    \/ Notify
    \/ FetchImagery
    \/ FetchDem
    \/ FetchOsm
    \/ ComputeFeatures
    \/ Score
    \/ ExtractTargets
    \/ GenerateOutputs
    \/ InsertTargets
    \/ UpdateCompleted
    \/ HandleException

(***************************************************************************)
(* The endpoints a client can call on the run while process_run executes   *)
(* and after it has ended (main.py).                                       *)
(*   lastRead   the status in the last response of GET /runs/{run_id},     *)
(*              "none" before the first                                    *)
(***************************************************************************)
\* number of geology uploads a client makes before and after completion
MaxUploads == 1

\* the uploads wrapped into a params value
Uploads(ps) == Cardinality({i \in DOMAIN ps : ps[i] = "geology_uploaded"})

\* an upload that writes the row it has read back, status included
upload_geology_M ==
    /\ Uploads(dbParams) < MaxUploads
    /\ dbParams' = Append(dbParams, "geology_uploaded")
    /\ status' = "queued"
    /\ UNCHANGED <<error, progress, targetRows, pc, stage, exc, notified, params>>
    /\ UNCHANGED pipelineLocals
    /\ UNCHANGED otherThanRun

\* main.py lines 204-213: the file geology.geojson of the run, then
\* update_run(params={"input": run["params"], "geology_uploaded": True})
upload_geology ==
    /\ Uploads(dbParams) < MaxUploads
    /\ dbParams' = Append(dbParams, "geology_uploaded")
    /\ UNCHANGED <<status, error, progress, targetRows, pc, stage, exc, notified, params>>
    /\ UNCHANGED pipelineLocals
    /\ UNCHANGED otherThanRun

\* main.py lines 112-117: get_run_endpoint returns the row
get_run_endpoint ==
    /\ lastRead' = status
    /\ UNCHANGED runVars
    /\ UNCHANGED otherThanApi

ApiNext == RunNext \/ upload_geology \/ get_run_endpoint

(***************************************************************************)
(* The download cache: pipeline.stac._localize_asset called by NumProcs    *)
(* runs for the same href, hence the same cache path.                      *)
(*   cacheExists  os.path.exists(path)                                     *)
(*   cacheFile    the chunks in the file (0: a hole left by a write past   *)
(*                the end of a truncated file)                             *)
(*   cpc, coff    position and file offset (in chunks) of each caller      *)
(*   cenabled     the caller's cache_enabled argument                      *)
(*   chit         the caller found the path existing                       *)
(*   cread        what the caller read from the href it was given back     *)
(***************************************************************************)
Procs == 1..NumProcs

\* the asset as the server sends it
FullContent == [i \in 1..NChunks |-> i]

NotRead == <<-1>>

\* f.write(chunk) at the writer's own offset
WriteAt(file, off, chunk) ==
    LET n == IF Len(file) > off + 1 THEN Len(file) ELSE off + 1 IN
    [i \in 1..n |-> IF i = off + 1 THEN chunk
                    ELSE IF i <= Len(file) THEN file[i]
                    ELSE 0]

CacheInit ==
    /\ cacheExists = FALSE
    /\ cacheFile = <<>>
    /\ cpc = [p \in Procs |-> "call"]
    /\ coff = [p \in Procs |-> 0]
    /\ cenabled \in [Procs -> BOOLEAN]
    /\ chit = [p \in Procs |-> FALSE]
    /\ cread = [p \in Procs |-> NotRead]

\* lines 68-72: without caching the remote href is returned
LocalizeCall(p) ==
    /\ cpc[p] = "call"
    /\ cpc' = [cpc EXCEPT ![p] = IF cenabled[p] THEN "exists" ELSE "return_href"]
    /\ UNCHANGED <<cacheExists, cacheFile, coff, cenabled, chit, cread>>
    /\ UNCHANGED otherThanCache

\* lines 73-74: if os.path.exists(path): return path
CheckExists(p) ==
    /\ cpc[p] = "exists"
    /\ chit' = [chit EXCEPT ![p] = cacheExists]
    /\ cpc' = [cpc EXCEPT ![p] = IF cacheExists THEN "return_path" ELSE "request"]
    /\ UNCHANGED <<cacheExists, cacheFile, coff, cenabled, cread>>
    /\ UNCHANGED otherThanCache

\* lines 77-78: requests.get and raise_for_status
Request(p) ==
    /\ cpc[p] = "request"
    /\ \E ok \in BOOLEAN :
         cpc' = [cpc EXCEPT ![p] = IF ok THEN "open" ELSE "raised"]
    /\ UNCHANGED <<cacheExists, cacheFile, coff, cenabled, chit, cread>>
    /\ UNCHANGED otherThanCache

\* line 79: open(path, "wb") creates the file or truncates it
OpenFile(p) ==
    /\ cpc[p] = "open"
    /\ cacheExists' = TRUE
    /\ cacheFile' = <<>>
    /\ coff' = [coff EXCEPT ![p] = 0]
    /\ cpc' = [cpc EXCEPT ![p] = "write"]
    /\ UNCHANGED <<cenabled, chit, cread>>
    /\ UNCHANGED otherThanCache

\* lines 80-82: one chunk written
WriteChunk(p) ==
    /\ cpc[p] = "write"
    /\ coff[p] < NChunks
    /\ cacheFile' = WriteAt(cacheFile, coff[p], coff[p] + 1)
    /\ coff' = [coff EXCEPT ![p] = coff[p] + 1]
    /\ UNCHANGED <<cacheExists, cpc, cenabled, chit, cread>>
    /\ UNCHANGED otherThanCache

\* line 80: iter_content raises part-way; nothing removes the file
DownloadFails(p) ==
    /\ cpc[p] = "write"
    /\ coff[p] < NChunks
    /\ cpc' = [cpc EXCEPT ![p] = "raised"]
    /\ UNCHANGED <<cacheExists, cacheFile, coff, cenabled, chit, cread>>
    /\ UNCHANGED otherThanCache

\* line 83: the loop is finished, the file closed, the path returned
ReturnPath(p) ==
    /\ cpc[p] = "write"
    /\ coff[p] = NChunks
    /\ cpc' = [cpc EXCEPT ![p] = "return_path"]
    /\ UNCHANGED <<cacheExists, cacheFile, coff, cenabled, chit, cread>>
    /\ UNCHANGED otherThanCache

\* _read_band line 100 / load_dem line 168: open_rasterio(href) on what
\* _localize_asset returned
ReadAsset(p) ==
    /\ cpc[p] \in {"return_path", "return_href"}
    /\ cread' = [cread EXCEPT ![p] =
                    IF cpc[p] = "return_path" THEN cacheFile ELSE FullContent]
    /\ cpc' = [cpc EXCEPT ![p] = "read_done"]
    /\ UNCHANGED <<cacheExists, cacheFile, coff, cenabled, chit>>
    /\ UNCHANGED otherThanCache

CacheNext ==
    \E p \in Procs :
        \/ LocalizeCall(p)
        \/ CheckExists(p)
        \/ Request(p)
        \/ OpenFile(p)
        \/ WriteChunk(p)
        \/ DownloadFails(p)
        \/ ReturnPath(p)
        \/ ReadAsset(p)

(***************************************************************************)
(* Evidence chips: pipeline.targets.evidence_chips.  A fraction metric is  *)
(* an integer numerator over a common denominator; an evidence map is a    *)
(* function from some of the metric names to metrics.                      *)
(*   evidence, cmode   the arguments of the call                           *)
(*   chips             the list returned                                   *)
(*   chipPc            "call" before the call, "returned" after            *)
(***************************************************************************)
\* the candidates in the order evidence_chips appends them (lines 179-189)
CandidateList(mode) ==
    IF mode = "coastal" THEN
        << [label |-> "Near coastline (<30 km)", key |-> "pct_near_coast"],
           [label |-> "Low slope (<=5 deg)", key |-> "pct_low_slope"],
           [label |-> "Low vegetation (NDVI<=0.2)", key |-> "pct_low_ndvi"],
           [label |-> "High sandiness (BSI top 30%)", key |-> "pct_high_bsi"],
           [label |-> "Near rivers", key |-> "pct_near_river"] >>
    ELSE
        << [label |-> "High lineament density", key |-> "pct_lineament_high"],
           [label |-> "Moderate relief (2-25 deg)", key |-> "pct_relief"],
           [label |-> "Low vegetation (NDVI<=0.4)", key |-> "pct_low_ndvi"],
           [label |-> "Favorable lithology match", key |-> "pct_geology_match"] >>

\* evidence.get(key, 0)
EvidenceGet(ev, key) == IF key \in DOMAIN ev THEN ev[key] ELSE 0

\* lines 177-189: the (label, metric) pairs; the lithology candidate is
\* appended only when its metric is > 0
Candidates(ev, mode) ==
    LET all == [i \in DOMAIN CandidateList(mode) |->
                   [label |-> CandidateList(mode)[i].label,
                    metric |-> EvidenceGet(ev, CandidateList(mode)[i].key)]]
        Keep(c) == c.label = "Favorable lithology match" => c.metric > 0
    IN SelectSeq(all, Keep)

\* list.sort(key=metric, reverse=True) that puts a candidate before the
\* candidates of equal metric already placed
InsertCandidate_M(sorted, c) ==
    LET pos == Cardinality({i \in DOMAIN sorted : sorted[i].metric > c.metric})
    IN SubSeq(sorted, 1, pos) \o <<c>> \o SubSeq(sorted, pos + 1, Len(sorted))

\* one insertion of the stable descending sort: c goes after every candidate
\* already placed whose metric is >= its own
InsertCandidate(sorted, c) ==
    LET pos == Cardinality({i \in DOMAIN sorted : sorted[i].metric >= c.metric})
    IN SubSeq(sorted, 1, pos) \o <<c>> \o SubSeq(sorted, pos + 1, Len(sorted))

RECURSIVE SortCandidates(_)
\* line 191: candidates.sort(key=lambda x: x[1], reverse=True); Python's sort
\* is stable, also with reverse=True
SortCandidates(cands) ==
    IF cands = <<>> THEN <<>>
    ELSE InsertCandidate(SortCandidates(SubSeq(cands, 1, Len(cands) - 1)),
                         cands[Len(cands)])

\* the slice of line 192: candidates[:3]
TopN == 3

\* line 192 with the test c[1] >= 0
SelectChips_M(sorted) ==
    LET top == SubSeq(sorted, 1, IF Len(sorted) < TopN THEN Len(sorted) ELSE TopN)
        Positive(c) == c.metric >= 0
        kept == SelectSeq(top, Positive)
    IN [i \in DOMAIN kept |-> kept[i].label]

\* line 192: chips = [c[0] for c in candidates[:3] if c[1] > 0]
SelectChips(sorted) ==
    LET top == SubSeq(sorted, 1, IF Len(sorted) < TopN THEN Len(sorted) ELSE TopN)
        Positive(c) == c.metric > 0
        kept == SelectSeq(top, Positive)
    IN [i \in DOMAIN kept |-> kept[i].label]

evidence_chips(ev, mode) == SelectChips(SortCandidates(Candidates(ev, mode)))

\* the evidence of tests/test_targets.py, in tenths
TestEvidence ==
    [k \in {"pct_near_coast", "pct_low_slope", "pct_low_ndvi", "pct_high_bsi",
            "pct_near_river"} |->
        CASE k = "pct_near_coast" -> 8
          [] k = "pct_low_slope" -> 6
          [] k = "pct_low_ndvi" -> 4
          [] k = "pct_high_bsi" -> 9
          [] OTHER -> 1]

MetricKeys(mode) == {CandidateList(mode)[i].key : i \in DOMAIN CandidateList(mode)}

EvidenceMaps(mode) ==
    UNION {[D -> 0..MaxMetric] : D \in SUBSET MetricKeys(mode)}

ChipInit ==
    /\ cmode \in {"coastal", "hardrock"}
    /\ evidence \in EvidenceMaps(cmode) \cup {TestEvidence}
    /\ chips = <<>>
    /\ chipPc = "call"

CallEvidenceChips ==
    /\ chipPc = "call"
    /\ chips' = evidence_chips(evidence, cmode)
    /\ chipPc' = "returned"
    /\ UNCHANGED <<evidence, cmode>>
    /\ UNCHANGED otherThanChips

ChipNext == CallEvidenceChips

(***************************************************************************)
(* Target extraction: pipeline.targets.extract_targets on a GridH x GridW  *)
(* score raster.  A pixel is <<row, column>>; areas are integers in one    *)
(* area unit; a mean is the rational sum / cnt.                            *)
(*   score       the score raster (NaN: a missing value)                   *)
(*   threshold, minArea   the arguments threshold and min_area_km2         *)
(*   areaStep    how the ground area of a pixel changes from one row to    *)
(*               the next (0 when every row of pixels covers the same      *)
(*               ground area)                                              *)
(*   tpc         "call" before the call, "returned" after                  *)
(*   targets     the list returned                                         *)
(***************************************************************************)
Cells == (1..GridH) \X (1..GridW)

NaN == 0 - 1
ScoreValues == {NaN, 1, 2}
ThresholdValues == {1, 2}
MinAreaValues == {1, 5}
AreaSteps == {0 - 1, 0, 1}

\* a float comparison with NaN is False
FloatGE(x, y) == x # NaN /\ y # NaN /\ x >= y

\* line 62: mask = score >= threshold
ThresholdMask(sc, thr) == {c \in Cells : FloatGE(sc[c], thr)}

\* adjacency that also joins the pixels touching at a corner
Adjacent_M(a, b) ==
    /\ a # b
    /\ a[1] - b[1] \in {0 - 1, 0, 1}
    /\ a[2] - b[2] \in {0 - 1, 0, 1}

\* connectivity 1 of remove_small_objects, connectivity 4 of features.shapes
Adjacent(a, b) ==
    \/ a[1] = b[1] /\ (a[2] = b[2] + 1 \/ b[2] = a[2] + 1)
    \/ a[2] = b[2] /\ (a[1] = b[1] + 1 \/ b[1] = a[1] + 1)

\* raster scan position of a pixel
ScanIndex(c) == (c[1] - 1) * GridW + c[2]

FirstPixel(S) == CHOOSE c \in S : \A d \in S : ScanIndex(c) <= ScanIndex(d)

RECURSIVE Grow(_, _, _)
\* the pixels connected to the frontier through pixels of rest
Grow(done, frontier, rest) ==
    IF frontier = {} THEN done
    ELSE LET next == {c \in rest : \E d \in frontier : Adjacent(c, d)}
         IN Grow(done \cup frontier, next, rest \ next)

RECURSIVE ComponentSeq(_)
\* the connected components of a mask, ordered by their first pixel in
\* raster scan order
ComponentSeq(mask) ==
    IF mask = {} THEN <<>>
    ELSE LET c == FirstPixel(mask)
             comp == Grow({}, {c}, mask \ {c})
         IN <<comp>> \o ComponentSeq(mask \ comp)

ConnectedComponents(mask) == Range(ComponentSeq(mask))

\* ground area of one pixel of row r
RowArea(r, step) == BaseArea + (r - 1) * step

\* lines 68-81: the pixel area is taken at pixel (0, 0);
\* min_size_px = max(int(min_area_km2 / pixel_area_km2), 1)
MinSizePx(minA, step) ==
    LET q == minA \div RowArea(1, step) IN IF q > 1 THEN q ELSE 1

\* line 82: remove_small_objects drops the components below min_size
RemoveSmallObjects(mask, minSize) ==
    UNION {comp \in ConnectedComponents(mask) : Cardinality(comp) >= minSize}

RECURSIVE AreaOf(_, _)
\* _area_km2 of the polygon of a component: the area of its pixels
AreaOf(comp, step) ==
    IF comp = {} THEN 0
    ELSE LET c == CHOOSE x \in comp : TRUE
         IN RowArea(c[1], step) + AreaOf(comp \ {c}, step)

RECURSIVE ScoreSum(_, _)
\* the sum of the scores of a set of pixels
ScoreSum(sc, S) ==
    IF S = {} THEN 0
    ELSE LET c == CHOOSE x \in S : TRUE
         IN sc[c] + ScoreSum(sc, S \ {c})

\* line 84: features.shapes, one polygon per component of the mask, in
\* scan order
ShapesOf(mask) == ComponentSeq(mask)

\* the statistics taken over the bounding box of the polygon
PolyStats_M(sc, comp) ==
    LET box == {c \in Cells :
                  /\ \E d \in comp : d[1] <= c[1]
                  /\ \E d \in comp : d[1] >= c[1]
                  /\ \E d \in comp : d[2] <= c[2]
                  /\ \E d \in comp : d[2] >= c[2]}
        valid == {c \in box : sc[c] # NaN}
    IN [sum |-> ScoreSum(sc, valid),
        cnt |-> Cardinality(valid),
        max |-> IF valid = {} THEN NaN
                ELSE CHOOSE m \in {sc[c] : c \in valid} :
                        \A c \in valid : sc[c] <= m]

\* lines 95-98: nanmean and nanmax of the score at the pixels whose centre
\* is inside the polygon (_geom_mask), which are the pixels of the component
PolyStats(sc, comp) ==
    LET valid == {c \in comp : sc[c] # NaN}
    IN [sum |-> ScoreSum(sc, valid),
        cnt |-> Cardinality(valid),
        max |-> IF valid = {} THEN NaN
                ELSE CHOOSE m \in {sc[c] : c \in valid} :
                        \A c \in valid : sc[c] <= m]

\* order of two means sum / cnt; a mean without a value is NaN
MeanGT(a, b) == a.cnt > 0 /\ b.cnt > 0 /\ a.sum * b.cnt > b.sum * a.cnt
MeanEQ(a, b) == a.cnt > 0 /\ b.cnt > 0 /\ a.sum * b.cnt = b.sum * a.cnt

\* the sort key with the area left out
KeyGE_M(a, b) == MeanGT(a.mean, b.mean) \/ MeanEQ(a.mean, b.mean)

\* line 118: the key (mean_score, area_km2), compared as Python tuples
KeyGE(a, b) ==
    \/ MeanGT(a.mean, b.mean)
    \/ MeanEQ(a.mean, b.mean) /\ a.area >= b.area

InsertTarget(sorted, t) ==
    LET pos == Cardinality({i \in DOMAIN sorted : KeyGE(sorted[i], t)})
    IN SubSeq(sorted, 1, pos) \o <<t>> \o SubSeq(sorted, pos + 1, Len(sorted))

RECURSIVE SortTargets(_)
\* line 118: targets.sort(key=..., reverse=True), a stable sort
SortTargets(ts) ==
    IF ts = <<>> THEN <<>>
    ELSE InsertTarget(SortTargets(SubSeq(ts, 1, Len(ts) - 1)), ts[Len(ts)])

\* the loop over the shapes without the area test of lines 91-93
UnsortedTargets_M(sc, thr, minA, step) ==
    LET mask == RemoveSmallObjects(ThresholdMask(sc, thr), MinSizePx(minA, step))
        kept == ShapesOf(mask)
    IN [i \in DOMAIN kept |->
           [cells |-> kept[i],
            area |-> AreaOf(kept[i], step),
            mean |-> [sum |-> PolyStats(sc, kept[i]).sum,
                      cnt |-> PolyStats(sc, kept[i]).cnt],
            max |-> PolyStats(sc, kept[i]).max]]

\* lines 86-116: the targets in the order of the shapes, before the sort
UnsortedTargets(sc, thr, minA, step) ==
    LET mask == RemoveSmallObjects(ThresholdMask(sc, thr), MinSizePx(minA, step))
        shapes == ShapesOf(mask)
        Big(comp) == ~(AreaOf(comp, step) < minA)
        kept == SelectSeq(shapes, Big)
    IN [i \in DOMAIN kept |->
           [cells |-> kept[i],
            area |-> AreaOf(kept[i], step),
            mean |-> [sum |-> PolyStats(sc, kept[i]).sum,
                      cnt |-> PolyStats(sc, kept[i]).cnt],
            max |-> PolyStats(sc, kept[i]).max]]

extract_targets(sc, thr, minA, step) ==
    SortTargets(UnsortedTargets(sc, thr, minA, step))

TargetInit ==
    /\ score \in [Cells -> ScoreValues]
    /\ threshold \in ThresholdValues
    /\ minArea \in MinAreaValues
    /\ areaStep \in AreaSteps
    /\ tpc = "call"
    /\ targets = <<>>

CallExtractTargets ==
    /\ tpc = "call"
    /\ targets' = extract_targets(score, threshold, minArea, areaStep)
    /\ tpc' = "returned"
    /\ UNCHANGED <<score, threshold, minArea, areaStep>>
    /\ UNCHANGED otherThanTargets

TargetNext == CallExtractTargets

(***************************************************************************)
(* Floating point values of the scorers.  A value is the rational          *)
(* num / den with den > 0, or NaN, written with den = 0.                   *)
(***************************************************************************)
NaNF == Frac(0, 0)
F(n) == Frac(n, 1)
IsNaN(x) == x.den = 0

\* the same rational with a positive denominator
Norm(x) == IF x.den < 0 THEN Frac(0 - x.num, 0 - x.den) ELSE x

FAdd(x, y) ==
    IF IsNaN(x) \/ IsNaN(y) THEN NaNF
    ELSE Frac(x.num * y.den + y.num * x.den, x.den * y.den)

FSub(x, y) ==
    IF IsNaN(x) \/ IsNaN(y) THEN NaNF
    ELSE Frac(x.num * y.den - y.num * x.den, x.den * y.den)

\* NaN * 0 is NaN
FMul(x, y) ==
    IF IsNaN(x) \/ IsNaN(y) THEN NaNF
    ELSE Frac(x.num * y.num, x.den * y.den)

\* the divisor is a threshold or a percentile difference, never 0 here
FDiv(x, y) ==
    IF IsNaN(x) \/ IsNaN(y) THEN NaNF
    ELSE IF y.num > 0 THEN Frac(x.num * y.den, x.den * y.num)
    ELSE Frac((0 - x.num) * y.den, x.den * (0 - y.num))

\* comparisons: False when an operand is NaN
FLT(x, y) == ~IsNaN(x) /\ ~IsNaN(y) /\ x.num * y.den < y.num * x.den
FLE(x, y) == ~IsNaN(x) /\ ~IsNaN(y) /\ x.num * y.den <= y.num * x.den
FEQ(x, y) == ~IsNaN(x) /\ ~IsNaN(y) /\ x.num * y.den = y.num * x.den

\* clip(0, 1): NaN stays NaN
Clip01(x) ==
    IF IsNaN(x) THEN NaNF
    ELSE IF x.num < 0 THEN F(0)
    ELSE IF x.num > x.den THEN F(1)
    ELSE x

(***************************************************************************)
(* pipeline.scoring._percentile_scale on a raster given as the sequence of *)
(* its pixels; the pixel values are integers or NaN.                       *)
(***************************************************************************)
InsertInt(sorted, v) ==
    LET pos == Cardinality({i \in DOMAIN sorted : sorted[i] <= v})
    IN SubSeq(sorted, 1, pos) \o <<v>> \o SubSeq(sorted, pos + 1, Len(sorted))

RECURSIVE SortInts(_)
SortInts(vs) ==
    IF vs = <<>> THEN <<>>
    ELSE InsertInt(SortInts(SubSeq(vs, 1, Len(vs) - 1)), vs[Len(vs)])

\* np.nanpercentile(data, q): the NaN pixels are left out, the others are
\* sorted and the value at rank q / 100 * (n - 1) is interpolated linearly;
\* NaN when no pixel has a value
NanPercentile(data, q) ==
    LET valid == SelectSeq(data, LAMBDA x : ~IsNaN(x))
        v == SortInts([i \in DOMAIN valid |-> valid[i].num])
        n == Len(v)
        r == q * (n - 1)
        i == r \div 100
        f == r - 100 * i
    IN IF n = 0 THEN NaNF
       ELSE IF i + 2 <= n
       THEN Frac(100 * v[i + 1] + f * (v[i + 2] - v[i + 1]), 100)
       ELSE Frac(100 * v[n], 100)

\* the normalizer without the final clip of line 14
_percentile_scale_M(data, p_low, p_high) ==
    LET lo == NanPercentile(data, p_low)
        hi == NanPercentile(data, p_high)
    IN IF FEQ(FSub(hi, lo), F(0))
       THEN [i \in DOMAIN data |-> F(0)]
       ELSE [i \in DOMAIN data |-> FDiv(FSub(data[i], lo), FSub(hi, lo))]

\* lines 6-15
_percentile_scale(data, p_low, p_high) ==
    LET lo == NanPercentile(data, p_low)
        hi == NanPercentile(data, p_high)
    IN IF FEQ(FSub(hi, lo), F(0))
       THEN [i \in DOMAIN data |-> Clip01(F(0))]
       ELSE [i \in DOMAIN data |->
                Clip01(FDiv(FSub(data[i], lo), FSub(hi, lo)))]

(***************************************************************************)
(* The scorers: pipeline.scoring.coastal_score and hardrock_score.  Every  *)
(* operation but the percentile rescaling is pixel by pixel, so the layers *)
(* are followed at one pixel, pixel 1, and the layer that is rescaled (BSI *)
(* for coastal, lineament density for hardrock) is held whole.             *)
(*   sMode      the scorer called                                          *)
(*   sLayers    ndvi, ndwi, slope, dist_coast, dist_river at pixel 1       *)
(*   sRaster    the rescaled layer, all pixels                             *)
(*   sGeology   the geology mask argument: None, or its value at pixel 1   *)
(*   sWeights   params["weights"]                                          *)
(*   sPc        "call", then "returned" or "raised"                        *)
(*   sScore     the score returned, at pixel 1                             *)
(*   sResolved  meta["weights"] returned by hardrock_score                 *)
(***************************************************************************)
CoastalThresholds ==
    [coast_max_m |-> F(2), slope_max |-> F(2), ndvi_max |-> F(2),
     bsi_percentile |-> 70, river_max_m |-> F(2), ndwi_water_max |-> F(1)]

HardrockThresholds ==
    [lineament_percentile |-> 70, slope_min |-> F(1), slope_max |-> F(2),
     ndvi_max |-> F(2), ndwi_water_max |-> F(1)]

\* the upper percentile of both scorers
HighPercentile == 98

\* 1 - layer / max, clipped
Closeness(x, max) == Clip01(FSub(F(1), FDiv(x, max)))

\* a water mask that passes the pixels at the threshold itself
WaterMask_M(ndwi, max) == IF FLE(ndwi, max) THEN F(1) ELSE F(0)

\* lines 68 and 138: (ndwi < ndwi_water_max).astype("float32")
WaterMask(ndwi, max) == IF FLT(ndwi, max) THEN F(1) ELSE F(0)

\* the closing clip left out
FinalClip_M(x) == x

\* lines 70 and 140: score.clip(0, 1)
FinalClip(x) == Clip01(x)

\* lines 46-70, at pixel 1
coastal_score(layers, bsi, weights) ==
    LET th == CoastalThresholds
        coastal == Closeness(layers.dist_coast, th.coast_max_m)
        slope_score == Closeness(layers.slope, th.slope_max)
        bare_land == Closeness(layers.ndvi, th.ndvi_max)
        sandiness == _percentile_scale(bsi, th.bsi_percentile, HighPercentile)[1]
        river == Closeness(layers.dist_river, th.river_max_m)
        sum == FAdd(FAdd(FAdd(FAdd(
                   FMul(coastal, F(weights.coastal_proximity)),
                   FMul(slope_score, F(weights.slope))),
                   FMul(bare_land, F(weights.bare_land))),
                   FMul(sandiness, F(weights.sandiness))),
                   FMul(river, F(weights.river_proximity)))
    IN FinalClip(FMul(sum, WaterMask(layers.ndwi, th.ndwi_water_max)))

NoGeology == [present |-> FALSE, value |-> F(0)]

\* lines 113-140, at pixel 1, with the weights resolved by lines 120-132
hardrock_score(layers, lineaments, geology, w) ==
    LET th == HardrockThresholds
        lineament == _percentile_scale(lineaments, th.lineament_percentile,
                                       HighPercentile)[1]
        relief == IF FLE(th.slope_min, layers.slope)
                     /\ FLE(layers.slope, th.slope_max)
                  THEN F(1) ELSE F(0)
        exposure == Closeness(layers.ndvi, th.ndvi_max)
        three == FAdd(FAdd(FMul(lineament, w.lineaments),
                           FMul(relief, w.relief)),
                      FMul(exposure, w.exposure))
        sum == IF geology.present
               THEN FAdd(three, FMul(geology.value, w.geology_boost))
               ELSE three
    IN FinalClip(FMul(sum, WaterMask(layers.ndwi, th.ndwi_water_max)))

LayerValues == {NaNF, F(1), F(3)}
NdwiValues == {NaNF, F(0), F(1)}
RasterValues == {NaNF, F(0), F(2)}
GeologyValues == {NaNF, F(0), F(1)}
ScorerWeightValues == {0 - 1, 0, 1, 2}

Pixels == 1..NPixels

CoastalWeightRecords ==
    [coastal_proximity : {0 - 1, 1, 2}, slope : {1}, bare_land : {0, 1},
     sandiness : {0 - 1, 2}, river_proximity : {0}]

ScorerHardrockWeights ==
    [lineaments : ScorerWeightValues, relief : ScorerWeightValues,
     exposure : {0, 1}, geology_boost : {1}]

ScorerInit ==
    /\ sMode \in {"coastal", "hardrock"}
    /\ sRaster \in [Pixels -> RasterValues]
    /\ sLayers \in [ndvi : LayerValues, ndwi : NdwiValues, slope : LayerValues,
                    dist_coast : IF sMode = "coastal" THEN LayerValues ELSE {F(0)},
                    dist_river : IF sMode = "coastal" THEN LayerValues ELSE {F(0)}]
    /\ sGeology \in IF sMode = "coastal" THEN {NoGeology}
                    ELSE {NoGeology} \cup [present : {TRUE}, value : GeologyValues]
    /\ sWeights \in IF sMode = "coastal" THEN CoastalWeightRecords
                    ELSE ScorerHardrockWeights
    /\ sPc = "call"
    /\ sScore = NaNF
    /\ sResolved = NoResolved

\* run_pipeline line 209
CallCoastalScore ==
    /\ sPc = "call"
    /\ sMode = "coastal"
    /\ sScore' = coastal_score(sLayers, sRaster, sWeights)
    /\ sPc' = "returned"
    /\ UNCHANGED <<sMode, sLayers, sRaster, sGeology, sWeights, sResolved>>
    /\ UNCHANGED otherThanScorer

\* hardrock_score returning the weights of params as its metadata
CallHardrockScore_M ==
    /\ sPc = "call"
    /\ sMode = "hardrock"
    /\ LET res == HardrockResolvedWeights(
                      sWeights, IF sGeology.present THEN "mask" ELSE "None")
       IN IF res.raised # NoException
          THEN /\ sPc' = "raised"
               /\ UNCHANGED <<sScore, sResolved>>
          ELSE /\ sPc' = "returned"
               /\ sResolved' = [k \in DOMAIN sWeights |-> F(sWeights[k])]
               /\ sScore' = hardrock_score(
                                sLayers, sRaster, sGeology,
                                [k \in DOMAIN res.weights |-> Norm(res.weights[k])])
    /\ UNCHANGED <<sMode, sLayers, sRaster, sGeology, sWeights>>
    /\ UNCHANGED otherThanScorer

\* run_pipeline line 223; the division of line 124 raises when the three
\* weights sum to 0
CallHardrockScore ==
    /\ sPc = "call"
    /\ sMode = "hardrock"
    /\ LET res == HardrockResolvedWeights(
                      sWeights, IF sGeology.present THEN "mask" ELSE "None")
       IN IF res.raised # NoException
          THEN /\ sPc' = "raised"
               /\ UNCHANGED <<sScore, sResolved>>
          ELSE /\ sPc' = "returned"
               /\ sResolved' = [k \in DOMAIN res.weights |-> Norm(res.weights[k])]
               /\ sScore' = hardrock_score(
                                sLayers, sRaster, sGeology,
                                [k \in DOMAIN res.weights |-> Norm(res.weights[k])])
    /\ UNCHANGED <<sMode, sLayers, sRaster, sGeology, sWeights>>
    /\ UNCHANGED otherThanScorer

ScorerNext == CallCoastalScore \/ CallHardrockScore

(***************************************************************************)
(* One call of _percentile_scale on a raster of NormLen pixels.            *)
(*   nData        the pixels of arr                                        *)
(*   nLow, nHigh  p_low and p_high, a low / high pair                      *)
(*   nPc          "call" before the call, "returned" after                 *)
(*   nScaled      the pixels of the raster returned                        *)
(***************************************************************************)
NormValues == {NaNF} \cup {F(v) : v \in 0..3}
Percentiles == {0, 50, 70, 98, 100}

NormInit ==
    /\ nData \in [1..NormLen -> NormValues]
    /\ nLow \in Percentiles
    /\ nHigh \in {q \in Percentiles : nLow <= q}
    /\ nPc = "call"
    /\ nScaled = [i \in 1..NormLen |-> NaNF]

CallPercentileScale ==
    /\ nPc = "call"
    /\ nScaled' = _percentile_scale(nData, nLow, nHigh)
    /\ nPc' = "returned"
    /\ UNCHANGED <<nData, nLow, nHigh>>
    /\ UNCHANGED otherThanNorm

NormNext == CallPercentileScale

(***************************************************************************)
(* The target records: extract_targets lines 86-119 with the identifier    *)
(* and the two distances of every target, executed twice on the same       *)
(* arguments.  A feature set is None (given = FALSE) or a set of vertices  *)
(* at pixel centres; a polygon is the set of its pixels, and its vertices  *)
(* are the pixel corners mapped by the transform of the score grid, so     *)
(* they are coordinates in the CRS of that grid.                           *)
(*   xScore           the score raster (threshold 2, min_area_km2 1)       *)
(*   xCrs             score_da.rio.crs                                     *)
(*   xRoads, xRivers  roads_gdf and rivers_gdf                             *)
(*   xRuns            the number of executions done                        *)
(*   xFirst, xSecond  the lists the two executions returned                *)
(*   xRaised          whether an execution ended with an exception         *)
(***************************************************************************)
Null == [null |-> TRUE, sq |-> 0]

AbsDiff(a, b) == IF a >= b THEN a - b ELSE b - a

\* squared planar distance, in half pixels, between a vertex and a pixel
PointToCellSq(pt, cell) ==
    LET gap(k) == IF AbsDiff(pt[k], cell[k]) = 0 THEN 0
                  ELSE 2 * AbsDiff(pt[k], cell[k]) - 1
    IN gap(1) * gap(1) + gap(2) * gap(2)

\* geom_proj.distance(union), squared
DistanceSq(geom, points) ==
    LET all == {PointToCellSq(pt, cell) : pt \in points, cell \in geom}
    IN CHOOSE d \in all : \A e \in all : d <= e

\* an empty feature set answered with the sentinel distance, not with null
_distance_to_lines_M(geom, gdf) ==
    IF ~gdf.given THEN Null
    ELSE IF gdf.points = {}
    THEN [null |-> FALSE, sq |-> SentinelDistance]
    ELSE [null |-> FALSE, sq |-> DistanceSq(geom, gdf.points)]

\* targets.py lines 32-42, on a polygon in longitude and latitude
_distance_to_lines(geom, gdf) ==
    IF ~gdf.given \/ gdf.points = {} THEN Null
    ELSE [null |-> FALSE, sq |-> DistanceSq(geom, gdf.points)]

\* line 105: str(uuid.uuid4()), the i-th identifier the random source gives
\* in an execution; seed is the state of the source
Seeds == {1, 2}
Uuid4(seed, i) == <<seed, i>>

RecordThreshold == 2
RecordMinArea == 1

NoFeatures == [given |-> FALSE, points |-> {}]
RoadSets ==
    {NoFeatures, [given |-> TRUE, points |-> {}],
     [given |-> TRUE, points |-> Cells]}
        \cup {[given |-> TRUE, points |-> {p}] : p \in Cells}
RiverSets ==
    {NoFeatures, [given |-> TRUE, points |-> {}],
     [given |-> TRUE, points |-> {<<1, 1>>}]}

\* the CRS a score grid can have: the synthetic grid of run.py line 61 and
\* the UTM grid of a Sentinel-2 asset (stac.py opens the assets as they are)
Wgs84 == "EPSG:4326"
GridCrs == {Wgs84, "EPSG:32643"}

\* lines 36-38 on a polygon whose coordinates are metres: the centroid's
\* easting is taken for a longitude, the zone of line 46 is far above 60
\* and pyproj knows no CRS of that code
DistanceRaises(crs, ts, gdf) ==
    crs # Wgs84 /\ ts # <<>> /\ gdf.given /\ gdf.points # {}

\* lines 22-25 on a polygon whose coordinates are metres: a northing is
\* taken for a latitude, it is beyond 90 and the geodesic area is NaN
GeodesicArea(crs, area) == IF crs = Wgs84 THEN area ELSE NaN

\* lines 86-119: the records in the order of the shapes, then the sort;
\* geometry and centroid (lines 90, 106, 108) keep the CRS of the grid
TargetRecords(sc, roads, rivers, seed, crs) ==
    LET ts == UnsortedTargets(sc, RecordThreshold, RecordMinArea, 0)
    IN SortTargets(
           [i \in DOMAIN ts |->
               [id |-> Uuid4(seed, i),
                cells |-> ts[i].cells,
                crs |-> crs,
                area |-> GeodesicArea(crs, ts[i].area),
                mean |-> ts[i].mean,
                max |-> ts[i].max,
                distance_to_road_m |-> _distance_to_lines(ts[i].cells, roads),
                distance_to_river_m |-> _distance_to_lines(ts[i].cells, rivers)]])

RecordInit ==
    /\ xScore \in [Cells -> {1, 2}]
    /\ xCrs \in GridCrs
    /\ xRoads \in RoadSets
    /\ xRivers \in RiverSets
    /\ xRuns = 0
    /\ xFirst = <<>>
    /\ xSecond = <<>>
    /\ xRaised = FALSE

\* one execution of extract_targets
ExecuteExtract ==
    /\ xRuns < 2
    /\ \E seed \in Seeds :
         LET ts == UnsortedTargets(xScore, RecordThreshold, RecordMinArea, 0)
             result == TargetRecords(xScore, xRoads, xRivers, seed, xCrs)
         IN IF DistanceRaises(xCrs, ts, xRoads)
               \/ DistanceRaises(xCrs, ts, xRivers)
            THEN xRaised' = TRUE /\ UNCHANGED <<xFirst, xSecond>>
            ELSE /\ xRaised' = xRaised
                 /\ IF xRuns = 0
                    THEN xFirst' = result /\ xSecond' = xSecond
                    ELSE xSecond' = result /\ xFirst' = xFirst
    /\ xRuns' = xRuns + 1
    /\ UNCHANGED <<xScore, xCrs, xRoads, xRivers>>
    /\ UNCHANGED otherThanRecords

RecordNext == ExecuteExtract

(***************************************************************************)
(* The files run_pipeline writes.  Concurrent runs, one per element of     *)
(* Procs; the run identifier of run r (a fresh uuid4, line 83 of main.py)  *)
(* is r.  A path is the sequence of its components below data_dir.         *)
(*   wsParams  cache_downloads, use_synthetic, mode, geology of each run   *)
(*   wsStage   0 before run_pipeline, then the number of pipeline steps    *)
(*             done; WsFailed after an exception                           *)
(*   wsFiles   the files created or modified so far, each with the run     *)
(*             that wrote it                                               *)
(***************************************************************************)
WsFailed == 0 - 1

\* lines 120-123, then the seven stages
WsSteps ==
    <<"setup", "fetch_imagery", "fetch_dem", "fetch_osm", "compute_features",
      "score", "extract_targets", "generate_outputs">>

\* every run writing into the directory runs/ itself
WorkspacePath_M(r, name) == <<"runs", name>>

\* line 120: os.path.join(settings.data_dir, "runs", run_id), then the
\* os.path.join(run_dir, name) of every write
WorkspacePath(r, name) == <<"runs", r, name>>

\* stac.py lines 71-72: os.path.join(cache_dir, hash_str(href) + ".tif")
CachePath(key) == <<"cache", key>>

\* the file names a step writes into the workspace of the run
WorkspaceNames(step, p) ==
    CASE step = "setup" -> {"aoi.geojson"}
      [] step = "fetch_imagery" ->
            {"sentinel_composite.tif", "ndvi.tif", "ndwi.tif", "bsi.tif"}
      [] step = "fetch_dem" -> {"dem.tif", "slope.tif", "hillshade.tif"}
      [] step = "fetch_osm" ->
            {"roads.geojson", "rivers.geojson", "coast.geojson",
             "dist_roads.tif", "dist_rivers.tif", "dist_coast.tif"}
      [] step = "compute_features" ->
            IF p.mode = "hardrock"
            THEN {"lineaments.tif"}
                     \cup (IF p.geology THEN {"geology_mask.tif"} ELSE {})
            ELSE {}
      [] step = "score" -> {"score.tif"}
      [] step = "extract_targets" -> {}
      [] step = "generate_outputs" ->
            {"overlay.png", "sentinel_preview.png", "dem_hillshade.png",
             "targets.geojson", "targets.csv", "report.html",
             "score_meta.json"}

\* the cache keys a step downloads: _localize_asset writes only when
\* cache_enabled, and the sources are asked only without use_synthetic
CacheKeys(step, p) ==
    IF p.cache_downloads /\ ~p.use_synthetic
    THEN CASE step = "fetch_imagery" -> {"sentinel_asset"}
           [] step = "fetch_dem" -> {"dem_asset"}
           [] OTHER -> {}
    ELSE {}

StepWrites(r, step, p) ==
    {[path |-> WorkspacePath(r, n), writer |-> r] :
        n \in WorkspaceNames(step, p)}
        \cup {[path |-> CachePath(k), writer |-> r] : k \in CacheKeys(step, p)}

\* the four combinations of cache_downloads and use_synthetic, in both
\* modes; geology: a geology layer with a keyword match was given
WorkspaceParams ==
    {[cache_downloads |-> TRUE, use_synthetic |-> FALSE, mode |-> "coastal",
      geology |-> FALSE],
     [cache_downloads |-> TRUE, use_synthetic |-> TRUE, mode |-> "hardrock",
      geology |-> TRUE],
     [cache_downloads |-> FALSE, use_synthetic |-> FALSE, mode |-> "hardrock",
      geology |-> FALSE],
     [cache_downloads |-> FALSE, use_synthetic |-> TRUE, mode |-> "coastal",
      geology |-> TRUE]}

WorkspaceInit ==
    /\ wsParams \in [Procs -> WorkspaceParams]
    /\ wsStage = [r \in Procs |-> 0]
    /\ wsFiles = {}

\* run r executes its next step and writes the files of the step
WsStep(r) ==
    /\ wsStage[r] # WsFailed
    /\ wsStage[r] < Len(WsSteps)
    /\ wsFiles' = wsFiles \cup StepWrites(r, WsSteps[wsStage[r] + 1], wsParams[r])
    /\ wsStage' = [wsStage EXCEPT ![r] = wsStage[r] + 1]
    /\ UNCHANGED wsParams
    /\ UNCHANGED otherThanWorkspace

\* run r raises in its next step, before the writes of the step
WsRaise(r) ==
    /\ wsStage[r] # WsFailed
    /\ wsStage[r] < Len(WsSteps)
    /\ wsStage' = [wsStage EXCEPT ![r] = WsFailed]
    /\ UNCHANGED <<wsParams, wsFiles>>
    /\ UNCHANGED otherThanWorkspace

WorkspaceNext == \E r \in Procs : WsStep(r) \/ WsRaise(r)

(***************************************************************************)
(* The UTM CRS of a centroid: targets._utm_crs_from_lonlat and             *)
(* utils.utm_crs_from_lonlat, each called once on the same centroid.  A    *)
(* longitude is counted in half degrees, a latitude in degrees; a CRS      *)
(* string is the sequence of the digits after "EPSG:".                     *)
(*   uLon, uLat   the centroid                                             *)
(*   uTargets     what targets._utm_crs_from_lonlat returned, << >> before *)
(*   uUtils       what utils.utm_crs_from_lonlat returned, << >> before    *)
(***************************************************************************)
LonHalves == (0 - 360)..360
LatValues == {0 - 90, 0 - 1, 0, 1, 90}

\* int(): the integer part of n/d, d > 0, rounded towards zero
IntTrunc(n, d) == IF n >= 0 THEN n \div d ELSE 0 - ((0 - n) \div d)

RECURSIVE DecimalDigits(_)
\* the decimal digits of a natural number
DecimalDigits(n) ==
    IF n < 10 THEN <<n>> ELSE DecimalDigits(n \div 10) \o <<n % 10>>

\* format(zone, "02d") for zone >= 0
Format02d(n) == IF n < 10 THEN <<0, n>> ELSE DecimalDigits(n)

\* the hemisphere chosen by lat > 0
_utm_crs_from_lonlat_M(lonHalves, lat) ==
    LET zone == IntTrunc(lonHalves + 360, 12) + 1
        hemisphere == IF lat > 0 THEN <<3, 2, 6>> ELSE <<3, 2, 7>>
    IN hemisphere \o Format02d(zone)

\* targets.py lines 45-48; (lon + 180) / 6 = (lonHalves + 360) / 12
_utm_crs_from_lonlat(lonHalves, lat) ==
    LET zone == IntTrunc(lonHalves + 360, 12) + 1
        hemisphere == IF lat >= 0 THEN <<3, 2, 6>> ELSE <<3, 2, 7>>
    IN hemisphere \o Format02d(zone)

\* utils.py lines 31-34
utm_crs_from_lonlat(lonHalves, lat) ==
    LET zone == IntTrunc(lonHalves + 360, 12) + 1
        hemisphere == IF lat >= 0 THEN <<3, 2, 6>> ELSE <<3, 2, 7>>
    IN hemisphere \o Format02d(zone)

UtmInit ==
    /\ uLon \in LonHalves
    /\ uLat \in LatValues
    /\ uTargets = <<>>
    /\ uUtils = <<>>

CallTargetsUtm ==
    /\ uTargets = <<>>
    /\ uTargets' = _utm_crs_from_lonlat(uLon, uLat)
    /\ UNCHANGED <<uLon, uLat, uUtils>>
    /\ UNCHANGED otherThanUtm

CallUtilsUtm ==
    /\ uUtils = <<>>
    /\ uUtils' = utm_crs_from_lonlat(uLon, uLat)
    /\ UNCHANGED <<uLon, uLat, uTargets>>
    /\ UNCHANGED otherThanUtm

UtmNext == CallTargetsUtm \/ CallUtilsUtm

(***************************************************************************)
(* The extract_targets stage of run_pipeline (run.py lines 239-258): the   *)
(* threshold is chosen, then extract_targets is called with it.  A score   *)
(* is counted in halves (0, 1, 2 for 0.0, 0.5, 1.0).                       *)
(*   gScore      the score raster                                          *)
(*   gMethod     params["threshold_method"]                                *)
(*   gValue      params["fixed_threshold"] or params["target_percentile"]  *)
(*   gThreshold  threshold_value, NaN before it is set                     *)
(*   gTargets    the cells and the area of the targets returned            *)
(*   gPc         "select", "extract", "returned"                           *)
(***************************************************************************)
StageScores == {0, 1, 2}
FixedThresholds == {1, 2}
TargetPercentiles == {50, 95, 100}
StageMinArea == 1

\* score.values as the sequence of its pixels in scan order
PixelSeq(sc) ==
    [i \in 1..(GridH * GridW) |->
        F(sc[CHOOSE c \in Cells : ScanIndex(c) = i])]

\* lines 240-244
ThresholdValue(sc, method, value) ==
    IF method = "fixed" THEN F(value)
    ELSE NanPercentile(PixelSeq(sc), value)

\* lines 248-257: extract_targets(score, threshold_value, min_area_km2, ...)
\* for the threshold num / den: score >= num / den is score * den >= num
ExtractAt(sc, thr, minA) ==
    LET scaled == [c \in Cells |-> sc[c] * thr.den]
        ts == IF IsNaN(thr) THEN extract_targets(sc, NaN, minA, 0)
              ELSE extract_targets(scaled, thr.num, minA, 0)
    IN [i \in DOMAIN ts |-> [cells |-> ts[i].cells, area |-> ts[i].area]]

StageInit ==
    /\ gScore \in [Cells -> StageScores]
    /\ gMethod \in {"fixed", "percentile"}
    /\ gValue \in IF gMethod = "fixed" THEN FixedThresholds ELSE TargetPercentiles
    /\ gThreshold = NaNF
    /\ gTargets = <<>>
    /\ gPc = "select"

\* lines 239-244
SelectThreshold ==
    /\ gPc = "select"
    /\ gThreshold' = ThresholdValue(gScore, gMethod, gValue)
    /\ gPc' = "extract"
    /\ UNCHANGED <<gScore, gMethod, gValue, gTargets>>
    /\ UNCHANGED otherThanStage

\* lines 246-257
CallExtractAt ==
    /\ gPc = "extract"
    /\ gTargets' = ExtractAt(gScore, gThreshold, StageMinArea)
    /\ gPc' = "returned"
    /\ UNCHANGED <<gScore, gMethod, gValue, gThreshold>>
    /\ UNCHANGED otherThanStage

StageNext == SelectThreshold \/ CallExtractAt

(***************************************************************************)
(* Specifications.  Each one runs one part of the program and holds the    *)
(* variables of the other parts at rest.                                   *)
(***************************************************************************)
RunAtRest ==
    /\ status = "queued"
    /\ dbParams = <<>>
    /\ error = NoException
    /\ progress = _progress_template
    /\ targetRows = 0
    /\ pc = "queued"
    /\ stage = 0
    /\ exc = NoException
    /\ notified = <<>>
    /\ params = [mode |-> "coastal", use_synthetic |-> TRUE, geology |-> "absent"]
    /\ sources = [imagery |-> "unasked", terrain |-> "unasked"]
    /\ s2 = "unset"
    /\ dem = "unset"
    /\ osm = NoOsm
    /\ dist = NoDist
    /\ geologyMask = "unset"
    /\ hweights = NoWeights
    /\ scoreMeta = [raised |-> NoException, weights |-> NoResolved]
    /\ nTargets = 0

CacheAtRest ==
    /\ cacheExists = FALSE
    /\ cacheFile = <<>>
    /\ cpc = [p \in Procs |-> "call"]
    /\ coff = [p \in Procs |-> 0]
    /\ cenabled = [p \in Procs |-> TRUE]
    /\ chit = [p \in Procs |-> FALSE]
    /\ cread = [p \in Procs |-> NotRead]

ChipAtRest ==
    /\ cmode = "coastal"
    /\ evidence = TestEvidence
    /\ chips = <<>>
    /\ chipPc = "call"

TargetAtRest ==
    /\ score = [c \in Cells |-> 1]
    /\ threshold = 1
    /\ minArea = 1
    /\ areaStep = 0
    /\ tpc = "call"
    /\ targets = <<>>

ScorerAtRest ==
    /\ sMode = "coastal"
    /\ sLayers = [ndvi |-> F(1), ndwi |-> F(0), slope |-> F(1),
                  dist_coast |-> F(0), dist_river |-> F(0)]
    /\ sRaster = [p \in Pixels |-> F(0)]
    /\ sGeology = NoGeology
    /\ sWeights = [coastal_proximity |-> 1, slope |-> 1, bare_land |-> 1,
                   sandiness |-> 1, river_proximity |-> 1]
    /\ sPc = "call"
    /\ sScore = NaNF
    /\ sResolved = NoResolved

NormAtRest ==
    /\ nData = [i \in 1..NormLen |-> F(0)]
    /\ nLow = 0
    /\ nHigh = 100
    /\ nPc = "call"
    /\ nScaled = [i \in 1..NormLen |-> NaNF]

RecordAtRest ==
    /\ xScore = [c \in Cells |-> 1]
    /\ xCrs = "EPSG:4326"
    /\ xRoads = NoFeatures
    /\ xRivers = NoFeatures
    /\ xRuns = 0
    /\ xFirst = <<>>
    /\ xSecond = <<>>
    /\ xRaised = FALSE

WorkspaceAtRest ==
    /\ wsParams = [r \in Procs |->
                     [cache_downloads |-> FALSE, use_synthetic |-> TRUE,
                      mode |-> "coastal", geology |-> TRUE]]
    /\ wsStage = [r \in Procs |-> 0]
    /\ wsFiles = {}

UtmAtRest ==
    /\ uLon = 0
    /\ uLat = 0
    /\ uTargets = <<>>
    /\ uUtils = <<>>

ApiAtRest == lastRead = "none"

StageAtRest ==
    /\ gScore = [c \in Cells |-> 0]
    /\ gMethod = "fixed"
    /\ gValue = 1
    /\ gThreshold = NaNF
    /\ gTargets = <<>>
    /\ gPc = "select"

\* the parts of the program a specification does not run
RestOfRun ==
    CacheAtRest /\ ChipAtRest /\ TargetAtRest /\ ScorerAtRest /\ NormAtRest
        /\ RecordAtRest
        /\ WorkspaceAtRest
        /\ UtmAtRest
        /\ ApiAtRest
        /\ StageAtRest

\* one run handled by process_run
Init == RunInit /\ RestOfRun
Next == RunNext
Spec == Init /\ [][Next]_vars

\* the worker executes process_run without suspension: every step that can
\* be taken is taken
FairSpec == Spec /\ WF_vars(Next)

\* one run handled by process_run while a client uploads geology and reads
\* the run
ApiSpec == Init /\ [][ApiNext]_vars

\* concurrent _localize_asset calls on one href
CacheSpecInit ==
    CacheInit /\ RunAtRest /\ ChipAtRest /\ TargetAtRest /\ ScorerAtRest
        /\ NormAtRest
        /\ RecordAtRest
        /\ WorkspaceAtRest
        /\ UtmAtRest
        /\ ApiAtRest
        /\ StageAtRest
CacheSpec == CacheSpecInit /\ [][CacheNext]_vars

\* one call of evidence_chips
ChipSpecInit ==
    ChipInit /\ RunAtRest /\ CacheAtRest /\ TargetAtRest /\ ScorerAtRest
        /\ NormAtRest
        /\ RecordAtRest
        /\ WorkspaceAtRest
        /\ UtmAtRest
        /\ ApiAtRest
        /\ StageAtRest
ChipSpec == ChipSpecInit /\ [][ChipNext]_vars

\* one call of extract_targets
TargetSpecInit ==
    TargetInit /\ RunAtRest /\ CacheAtRest /\ ChipAtRest /\ ScorerAtRest
        /\ NormAtRest
        /\ RecordAtRest
        /\ WorkspaceAtRest
        /\ UtmAtRest
        /\ ApiAtRest
        /\ StageAtRest
TargetSpec == TargetSpecInit /\ [][TargetNext]_vars

\* one call of a scorer
ScorerSpecInit ==
    ScorerInit /\ RunAtRest /\ CacheAtRest /\ ChipAtRest /\ TargetAtRest
        /\ NormAtRest
        /\ RecordAtRest
        /\ WorkspaceAtRest
        /\ UtmAtRest
        /\ ApiAtRest
        /\ StageAtRest
ScorerSpec == ScorerSpecInit /\ [][ScorerNext]_vars

\* one call of _percentile_scale
NormSpecInit ==
    NormInit /\ RunAtRest /\ CacheAtRest /\ ChipAtRest /\ TargetAtRest
        /\ ScorerAtRest
        /\ RecordAtRest
        /\ WorkspaceAtRest
        /\ UtmAtRest
        /\ ApiAtRest
        /\ StageAtRest
NormSpec == NormSpecInit /\ [][NormNext]_vars

\* two executions of extract_targets on the same arguments
RecordSpecInit ==
    RecordInit /\ RunAtRest /\ CacheAtRest /\ ChipAtRest /\ TargetAtRest
        /\ ScorerAtRest /\ NormAtRest
        /\ WorkspaceAtRest
        /\ UtmAtRest
        /\ ApiAtRest
        /\ StageAtRest
RecordSpec == RecordSpecInit /\ [][RecordNext]_vars

\* concurrent runs writing their files
WorkspaceSpecInit ==
    WorkspaceInit /\ RunAtRest /\ CacheAtRest /\ ChipAtRest /\ TargetAtRest
        /\ ScorerAtRest /\ NormAtRest /\ RecordAtRest
        /\ UtmAtRest
        /\ ApiAtRest
        /\ StageAtRest
WorkspaceSpec == WorkspaceSpecInit /\ [][WorkspaceNext]_vars

\* the UTM CRS of one centroid, asked of both functions
UtmSpecInit ==
    UtmInit /\ RunAtRest /\ CacheAtRest /\ ChipAtRest /\ TargetAtRest
        /\ ScorerAtRest /\ NormAtRest /\ RecordAtRest /\ WorkspaceAtRest
        /\ ApiAtRest
        /\ StageAtRest
UtmSpec == UtmSpecInit /\ [][UtmNext]_vars

\* the extract_targets stage of one run
StageSpecInit ==
    StageInit /\ RunAtRest /\ CacheAtRest /\ ChipAtRest /\ TargetAtRest
        /\ ScorerAtRest /\ NormAtRest /\ RecordAtRest /\ WorkspaceAtRest
        /\ UtmAtRest /\ ApiAtRest
StageSpec == StageSpecInit /\ [][StageNext]_vars

(***************************************************************************)
(* Properties of the run (Spec, FairSpec).                                 *)
(***************************************************************************)
TerminalStatus == {"completed", "failed"}

PromisedStages ==
    <<"fetch_imagery", "fetch_dem", "fetch_osm", "compute_features", "score",
      "extract_targets", "generate_outputs">>

\* run_pipeline has returned its result to process_run
PipelineReturned == pc \in {"insert_targets", "update_completed"} \/ status = "completed"

\* C3: the stage names the progress sink received are a prefix of the fixed
\* sequence (each at most once, never out of order), and a pipeline that
\* returned has announced all seven.
C3_StagesArePrefix ==
    /\ IsPrefix(notified, PromisedStages)
    /\ PipelineReturned => notified = PromisedStages

\* a completed run, all seven stages announced
C3_Witness == status = "completed" /\ Len(notified) = 7 /\ pc = "done"

\* position of a stage in the stage order
StageIndex(k) == CHOOSE i \in DOMAIN TemplateSteps : TemplateSteps[i] = k

\* at most one stage is running and every stage before it is done
OneRunningPrefixDone ==
    \A k \in DOMAIN progress :
        progress[k] = "running" =>
            /\ \A j \in DOMAIN progress : progress[j] = "running" => j = k
            /\ \A j \in DOMAIN progress :
                   StageIndex(j) < StageIndex(k) => progress[j] = "done"

\* the step _update_progress(run, s): s runs, what ran before is done
ProgressStep ==
    (pc = "notify" /\ pc' = "work") =>
        /\ progress'[PipelineStages[stage]] = "running"
        /\ \A k \in DOMAIN progress : progress[k] = "running" => progress'[k] = "done"

\* C4: each new stage completes the previous one: after
\* _update_progress(run, s) stage s is running and the stage that was
\* running is done; in every state at most one stage is running and every
\* stage before it in the stage order is done.
C4_ProgressOrdered == [][ProgressStep]_vars /\ []OneRunningPrefixDone

\* the score stage runs, the stages before it are done
C4_Witness ==
    /\ pc = "work"
    /\ progress["score"] = "running"
    /\ progress["compute_features"] = "done"
    /\ progress["extract_targets"] = "pending"

C6_DataUnavailableFatal ==
    (sources.imagery = "none" \/ sources.terrain = "none") =>
        /\ status # "completed"
        /\ pc = "done" => status = "failed"

\* C6 amended: no imagery items abort the run, which ends failed with the
\* message stored and is never completed; no terrain items never raise: the
\* pipeline goes on with a flat DEM.
C6_ImageryUnavailableFatal ==
    /\ sources.imagery = "none" =>
          /\ status # "completed"
          /\ s2 = "unset"
          /\ pc \in {"except", "done"}
          /\ pc = "done" => (status = "failed" /\ error = NoSentinelItems)
    /\ sources.terrain = "none" => (dem = "flat" /\ exc # NoDemItems)

\* a run whose imagery search found nothing, ended failed
C6_Witness ==
    /\ sources.imagery = "none"
    /\ pc = "done"
    /\ status = "failed"
    /\ error = NoSentinelItems

\* C7 as stated: degenerate inputs (empty feature sets, zero-variance
\* rasters, no geology layer) never make the run fail: a run ends failed
\* only when data is unavailable or an unexpected error was raised.
C7_DegenerateNeverFails ==
    (pc = "done" /\ status = "failed") => error \in {NoSentinelItems, Unexpected}

(***************************************************************************)
(* Property of the download cache (CacheSpec).                             *)
(***************************************************************************)
\* C2 as stated: the cache entry is never seen corrupted: a caller that
\* found the cache path existing and read it obtained the complete
\* downloaded content, under every interleaving.
C2_CacheHitReadsComplete ==
    \A p \in Procs :
        (chit[p] /\ cpc[p] = "read_done") => cread[p] = FullContent

(***************************************************************************)
(* Properties of evidence_chips (ChipSpec).                                *)
(***************************************************************************)
\* position in the mode's candidate list of the candidate with this label
CandidateIndex(label) ==
    CHOOSE j \in DOMAIN CandidateList(cmode) : CandidateList(cmode)[j].label = label

\* the metric the evidence map gives candidate j
CandidateMetric(j) == EvidenceGet(evidence, CandidateList(cmode)[j].key)

ChipIndexes == {CandidateIndex(chips[i]) : i \in DOMAIN chips}

\* C8: the labels returned are sorted descending by metric, ties in the
\* order of the candidate list; no candidate left out has a metric strictly
\* greater than a selected one; the metrics of the test give
\* [high_bsi, near_coast, low_slope].
C8_ChipsSortedStable ==
    chipPc = "returned" =>
        /\ \A i \in DOMAIN chips : \A j \in DOMAIN chips :
              i < j =>
                 LET a == CandidateIndex(chips[i])
                     b == CandidateIndex(chips[j])
                 IN \/ CandidateMetric(a) > CandidateMetric(b)
                    \/ CandidateMetric(a) = CandidateMetric(b) /\ a < b
        /\ \A c \in DOMAIN CandidateList(cmode) \ ChipIndexes :
              \A k \in ChipIndexes : ~(CandidateMetric(c) > CandidateMetric(k))
        /\ (cmode = "coastal" /\ evidence = TestEvidence) =>
              chips = <<"High sandiness (BSI top 30%)",
                        "Near coastline (<30 km)",
                        "Low slope (<=5 deg)">>

\* the call of the test has returned its three labels
C8_Witness ==
    /\ chipPc = "returned"
    /\ cmode = "coastal"
    /\ evidence = TestEvidence
    /\ chips = <<"High sandiness (BSI top 30%)", "Near coastline (<30 km)",
                 "Low slope (<=5 deg)">>

PositiveCandidates ==
    {j \in DOMAIN CandidateList(cmode) : CandidateMetric(j) > 0}

\* C9: at most 3 labels, each of a candidate whose metric is > 0, and
\* min(3, number of candidates with metric > 0) of them; a candidate with
\* metric 0 or without a metric never appears.
C9_ChipsPositiveTopThree ==
    chipPc = "returned" =>
        /\ Len(chips) <= 3
        /\ \A i \in DOMAIN chips :
              /\ \E j \in DOMAIN CandidateList(cmode) :
                    CandidateList(cmode)[j].label = chips[i]
              /\ CandidateIndex(chips[i]) \in PositiveCandidates
        /\ Len(chips) = IF Cardinality(PositiveCandidates) < 3
                        THEN Cardinality(PositiveCandidates) ELSE 3
        /\ \A i \in DOMAIN chips : \A j \in DOMAIN chips :
              chips[i] = chips[j] => i = j

\* two candidates with a metric > 0, one with metric 0, one without a
\* metric: two labels returned
C9_Witness ==
    /\ chipPc = "returned"
    /\ cmode = "hardrock"
    /\ Cardinality(PositiveCandidates) = 2
    /\ \E j \in DOMAIN CandidateList(cmode) :
          CandidateList(cmode)[j].key \in DOMAIN evidence /\ CandidateMetric(j) = 0
    /\ \E j \in DOMAIN CandidateList(cmode) :
          CandidateList(cmode)[j].key \notin DOMAIN evidence
    /\ Len(chips) = 2

FourNeighbours(a, b) ==
    \/ a[1] = b[1] /\ (a[2] - b[2] = 1 \/ b[2] - a[2] = 1)
    \/ a[2] = b[2] /\ (a[1] - b[1] = 1 \/ b[1] - a[1] = 1)

RECURSIVE Reach4(_, _)
Reach4(seen, mask) ==
    LET more == {c \in mask \ seen : \E d \in seen : FourNeighbours(c, d)}
    IN IF more = {} THEN seen ELSE Reach4(seen \cup more, mask)

AboveThreshold == {c \in Cells : score[c] # NaN /\ score[c] >= threshold}

\* the maximal set of adjacent above-threshold pixels that holds pixel c
Region(c) == Reach4({c}, AboveThreshold)

Regions == {Region(c) : c \in AboveThreshold}

RECURSIVE GroundArea(_)
GroundArea(S) ==
    IF S = {} THEN 0
    ELSE LET c == CHOOSE x \in S : TRUE
         IN (BaseArea + (c[1] - 1) * areaStep) + GroundArea(S \ {c})

\* the pixel count a region needs: max(floor(min_area / pixel_area), 1)
NeededPixels ==
    IF minArea \div BaseArea > 1 THEN minArea \div BaseArea ELSE 1

AllRegionsLarge ==
    \A r \in Regions :
        /\ Cardinality(r) >= NeededPixels
        /\ GroundArea(r) >= minArea

\* C12: when every 4-connected region of score >= threshold passes the
\* pixel-count filter and the area filter, the targets are the regions, one
\* target each: none split, none merged, as many targets as regions.
C12_OneTargetPerComponent ==
    (tpc = "returned" /\ AllRegionsLarge) =>
        /\ {targets[i].cells : i \in DOMAIN targets} = Regions
        /\ Len(targets) = Cardinality(Regions)

\* two regions touching at a corner, both large enough, two targets
C12_Witness ==
    /\ tpc = "returned"
    /\ AllRegionsLarge
    /\ Cardinality(Regions) = 2
    /\ Len(targets) = 2


(***************************************************************************)
(* The scorers.                                                            *)
(***************************************************************************)
WaterThreshold ==
    IF sMode = "coastal" THEN CoastalThresholds.ndwi_water_max
    ELSE HardrockThresholds.ndwi_water_max

IsWaterPixel == FLE(WaterThreshold, sLayers.ndwi)

\* the values at pixel 1 of the layers the scorer reads besides NDWI
OtherInputs ==
    {sLayers.ndvi, sLayers.slope, sRaster[1]}
        \cup (IF sMode = "coastal"
              THEN {sLayers.dist_coast, sLayers.dist_river} ELSE {})
        \cup (IF sGeology.present THEN {sGeology.value} ELSE {})

\* C13 as stated: a pixel with NDWI >= ndwi_water_max has score exactly 0
\* whatever the other layers hold.
C13_WaterPixelZero ==
    (sPc = "returned" /\ IsWaterPixel) => FEQ(sScore, F(0))

\* C13: a pixel with NDWI >= ndwi_water_max where no other input layer is
\* missing has score exactly 0, whatever the values and the weights; a
\* missing value in another layer makes the product with the mask NaN.
C13_WaterPixelZeroUnlessMissing ==
    (sPc = "returned" /\ IsWaterPixel) =>
        IF \E x \in OtherInputs : IsNaN(x)
        THEN FEQ(sScore, F(0)) \/ IsNaN(sScore)
        ELSE FEQ(sScore, F(0))

\* a water pixel exactly at the threshold whose weighted sum is not 0
C13_Witness ==
    /\ sPc = "returned"
    /\ sMode = "coastal"
    /\ FEQ(sLayers.ndwi, WaterThreshold)
    /\ \A x \in OtherInputs : ~IsNaN(x)
    /\ sLayers.dist_coast = F(1)
    /\ sWeights.coastal_proximity = 2
    /\ sWeights.sandiness = 2
    /\ FEQ(sScore, F(0))

\* C14: every score that is not missing lies in [0, 1], for every layer
\* value and every weight record.
C14_ScoreInUnitInterval ==
    sPc = "returned" =>
        (IsNaN(sScore) \/ (FLE(F(0), sScore) /\ FLE(sScore, F(1))))

\* weights above 1 on a land pixel: the sum exceeds 1 and the score is 1;
\* hardrock with negative weights is the other end
C14_Witness ==
    /\ sPc = "returned"
    /\ sMode = "coastal"
    /\ sWeights.coastal_proximity = 2
    /\ sWeights.sandiness = 2
    /\ sLayers.dist_coast = F(1)
    /\ sLayers.ndwi = F(0)
    /\ sRaster[1] = F(2)
    /\ FEQ(sScore, F(1))

ThreeGiven == sWeights.lineaments + sWeights.relief + sWeights.exposure

ThreeApplied ==
    FAdd(FAdd(sResolved.lineaments, sResolved.relief), sResolved.exposure)

WithoutLithology == sMode = "hardrock" /\ sPc = "returned" /\ ~sGeology.present
WithLithology == sMode = "hardrock" /\ sPc = "returned" /\ sGeology.present

ScorerWeightKeys == {"lineaments", "relief", "exposure"}

SameValue(x, y) == (IsNaN(x) /\ IsNaN(y)) \/ FEQ(x, y)

\* C16: without a lithology layer the applied weights keep the proportions
\* of the given lineaments, relief and exposure weights and the lithology
\* weight applied is 0; with the layer the four given weights are applied
\* unchanged; the metadata holds the weights the score was computed with.
C16_WeightResolution ==
    /\ WithoutLithology =>
          /\ \A i \in ScorerWeightKeys, j \in ScorerWeightKeys :
                FEQ(FMul(sResolved[i], F(sWeights[j])),
                    FMul(sResolved[j], F(sWeights[i])))
          /\ FEQ(sResolved.geology_boost, F(0))
    /\ WithLithology =>
          \A k \in ScorerWeightKeys \cup {"geology_boost"} :
              FEQ(sResolved[k], F(sWeights[k]))
    /\ (sMode = "hardrock" /\ sPc = "returned") =>
          SameValue(sScore,
                    hardrock_score(sLayers, sRaster, sGeology, sResolved))

\* unequal given weights without the layer, and a score that depends on them
C16_Witness ==
    /\ WithoutLithology
    /\ sWeights.lineaments = 2
    /\ sWeights.relief = 1
    /\ sWeights.exposure = 1
    /\ FEQ(sResolved.lineaments, Frac(1, 2))
    /\ FEQ(sResolved.relief, Frac(1, 4))
    /\ FLT(F(0), sScore)

\* the values at pixel 1 of every layer the scorer reads
AllInputs == OtherInputs \cup {sLayers.ndwi}

\* C17: a missing value at a pixel of any input layer gives a missing score
\* at that pixel, and the scorer returns.
C17_NaNPropagates ==
    (sPc # "call" /\ \E x \in AllInputs : IsNaN(x)) =>
        (sPc = "returned" /\ IsNaN(sScore))


(***************************************************************************)
(* The percentile normalizer.                                              *)
(***************************************************************************)
LowValue == NanPercentile(nData, nLow)
HighValue == NanPercentile(nData, nHigh)

ValidPixels == {i \in 1..NormLen : ~IsNaN(nData[i])}

\* C18: the output lies in [0, 1]; pixels at or below the low percentile
\* value give 0 and pixels at or above the high percentile value give 1 (at
\* 0 / 100 the smallest pixel gives exactly 0 and the largest exactly 1);
\* when the two percentile values are equal the output is all zeros.
C18_PercentileScale ==
    nPc = "returned" =>
        /\ \A i \in 1..NormLen :
              IsNaN(nScaled[i])
                  \/ (FLE(F(0), nScaled[i]) /\ FLE(nScaled[i], F(1)))
        /\ FLT(LowValue, HighValue) =>
              \A i \in 1..NormLen :
                  /\ FLE(nData[i], LowValue) => FEQ(nScaled[i], F(0))
                  /\ FLE(HighValue, nData[i]) => FEQ(nScaled[i], F(1))
        /\ (nLow = 0 /\ nHigh = 100
               /\ \E i \in ValidPixels, j \in ValidPixels :
                      FLT(nData[i], nData[j])) =>
              \A i \in ValidPixels :
                  /\ (\A j \in ValidPixels : FLE(nData[i], nData[j]))
                        => FEQ(nScaled[i], F(0))
                  /\ (\A j \in ValidPixels : FLE(nData[j], nData[i]))
                        => FEQ(nScaled[i], F(1))
        /\ FEQ(LowValue, HighValue) =>
              \A i \in 1..NormLen : FEQ(nScaled[i], F(0))

\* a linearly spaced raster rescaled between inner percentiles: pixels
\* below the low value and above the high value are clipped
C18_Witness ==
    /\ nPc = "returned"
    /\ nLow = 50
    /\ nHigh = 70
    /\ \A i \in 1..NormLen : nData[i] = F(i - 1)
    /\ FEQ(nScaled[1], F(0))
    /\ FEQ(nScaled[NormLen], F(1))


(***************************************************************************)
(* The target records.                                                     *)
(***************************************************************************)
ReturnedRecords == Range(xFirst) \cup Range(xSecond)

NoFeaturesIn(gdf) == ~gdf.given \/ gdf.points = {}

DistanceAsClaimed(d, geom, gdf) ==
    /\ d.null <=> NoFeaturesIn(gdf)
    /\ ~d.null =>
          /\ d.sq >= 0
          /\ (gdf.points \cap geom # {}) => d.sq = 0

\* C19: the distance to the roads (to the rivers) of a target is null
\* exactly when the road (river) set is absent or empty; otherwise it is a
\* number >= 0, and 0 when a feature lies on the target polygon.
C19_DistanceNullIffNoFeatures ==
    \A t \in ReturnedRecords :
        /\ DistanceAsClaimed(t.distance_to_road_m, t.cells, xRoads)
        /\ DistanceAsClaimed(t.distance_to_river_m, t.cells, xRivers)

\* a target with a road vertex on it, a river away from it, and a second
\* target away from the road
C19_Witness ==
    /\ xRuns >= 1
    /\ xRivers.points # {}
    /\ \E t \in Range(xFirst) :
          /\ t.distance_to_road_m = [null |-> FALSE, sq |-> 0]
          /\ ~t.distance_to_river_m.null
          /\ t.distance_to_river_m.sq > 0
    /\ \E t \in Range(xFirst) :
          ~t.distance_to_road_m.null /\ t.distance_to_road_m.sq > 0

\* C20: two executions on the same arguments return the same list: the same
\* targets in the same order, equal in every field.
C20_ExtractDeterministic ==
    xRuns = 2 => xFirst = xSecond

\* C22: the geometry and the centroid of every returned target are in
\* WGS84, on a geographic and on a projected score grid alike, and its area
\* is the geodesic area taken on WGS84 coordinates.
C22_TargetsInWgs84 ==
    \A t \in ReturnedRecords : t.crs = Wgs84 /\ t.area # NaN

(***************************************************************************)
(* The workspaces.                                                         *)
(***************************************************************************)
\* C21: a file written by run r lies under runs/r, or in the download cache
\* when r runs with caching enabled; no run writes into the workspace of
\* another run.
C21_RunsIsolated ==
    \A f \in wsFiles :
        \/ /\ Len(f.path) = 3
           /\ f.path[1] = "runs"
           /\ f.path[2] = f.writer
        \/ /\ f.path[1] = "cache"
           /\ wsParams[f.writer].cache_downloads

\* two runs have both written all their files while interleaved, one of
\* them also into the cache
C21_Witness ==
    /\ \A r \in Procs : wsStage[r] = Len(WsSteps)
    /\ \E f \in wsFiles : f.path[1] = "cache"
    /\ \E f \in wsFiles, g \in wsFiles :
          /\ f.writer # g.writer
          /\ f.path[1] = "runs"
          /\ g.path[1] = "runs"
          /\ f.path[3] = g.path[3]

(***************************************************************************)
(* The UTM CRS (UtmSpec).                                                  *)
(***************************************************************************)
RECURSIVE DigitsValue(_)
DigitsValue(ds) ==
    IF ds = <<>> THEN 0
    ELSE 10 * DigitsValue(SubSeq(ds, 1, Len(ds) - 1)) + ds[Len(ds)]

\* floor((lon + 180) / 6) + 1
ZoneAsSpecified(lonHalves) == ((lonHalves + 360) \div 12) + 1

CodeAsSpecified(lonHalves, lat) ==
    (IF lat >= 0 THEN 32600 ELSE 32700) + ZoneAsSpecified(lonHalves)

\* C23: the EPSG code returned for a centroid is 32600 + zone when the
\* latitude is >= 0 and 32700 + zone otherwise, with
\* zone = floor((lon + 180) / 6) + 1, and the function of targets.py and the
\* function of utils.py return the same code.
C23_UtmCodeAsSpecified ==
    /\ uTargets # <<>> => DigitsValue(uTargets) = CodeAsSpecified(uLon, uLat)
    /\ uUtils # <<>> => DigitsValue(uUtils) = CodeAsSpecified(uLon, uLat)
    /\ (uTargets # <<>> /\ uUtils # <<>>) => uTargets = uUtils

\* both functions have answered for a centroid on the equator, at a
\* longitude that is no multiple of 6 degrees, west of Greenwich
C23_Witness ==
    /\ uTargets # <<>>
    /\ uUtils # <<>>
    /\ uLat = 0
    /\ uLon < 0
    /\ uLon % 12 # 0

\* C30: for a longitude in [-180, 180] and any latitude the zone is in
\* 1..60 and the code in 32601..32660 or 32701..32760.
C30_ZoneInRange ==
    \A code \in {DigitsValue(c) : c \in {uTargets, uUtils} \ {<<>>}} :
        code \in (32601..32660) \cup (32701..32760)

(***************************************************************************)
(* The status of the run under the endpoints (ApiSpec).                    *)
(***************************************************************************)
StatusMoves == {<<"queued", "running">>, <<"running", "completed">>,
                <<"running", "failed">>}

\* C24: the stored status moves only from queued to running and from
\* running to completed or to failed; completed and failed are never left,
\* whatever operation comes later (progress update, geology upload, read).
C24_StatusLifecycle ==
    [][status' = status \/ <<status, status'>> \in StatusMoves]_vars

\* C24 as the code has it: a run whose UPDATE to running raised goes from
\* queued to failed; otherwise the moves are those above, and completed and
\* failed are never left.
C24_StatusLifecycleOrEarlyFailure ==
    [][\/ status' = status
       \/ <<status, status'>> \in StatusMoves
       \/ <<status, status'>> = <<"queued", "failed">>]_vars

\* the run is completed, geology was uploaded after that and the run was
\* read after that
C24_Witness ==
    /\ status = "completed"
    /\ dbParams = <<"score_meta", "geology_uploaded">>
    /\ lastRead = "completed"

(***************************************************************************)
(* The rows of the targets table (FairSpec).                               *)
(***************************************************************************)
\* C25: a run whose status is failed has no rows in the targets table, and
\* when rows of a run exist its status is completed or becomes completed.
C25_TargetsOnlyForCompleted ==
    /\ [](status = "failed" => targetRows = 0)
    /\ [](targetRows > 0 => <>(status = "completed"))

(***************************************************************************)
(* The cache after a failed download (CacheSpec).                          *)
(***************************************************************************)
\* a download failed part-way: the file exists, is not the complete
\* content, and no caller is writing it
TruncatedLeft ==
    /\ cacheExists
    /\ cacheFile # FullContent
    /\ \A p \in Procs : cpc[p] # "write"

\* C26: when a download has failed part-way, a later call for the same href
\* does not take the truncated file for a cache hit: its test of the cache
\* path leads to a new download.
C26_NoHitOnFailedDownload ==
    [][\A q \in Procs :
          (TruncatedLeft /\ cpc[q] = "exists" /\ cpc'[q] # "exists")
              => (cpc'[q] = "request" /\ ~chit'[q])]_vars

(***************************************************************************)
(* The threshold of the extract_targets stage (StageSpec).                 *)
(***************************************************************************)
AllZero(sc) == \A c \in Cells : sc[c] = 0

\* C27: a score raster that is 0 at every pixel gives no targets, with the
\* fixed threshold and with the percentile threshold alike.
C27_ZeroScoreNoTargets ==
    (gPc = "returned" /\ AllZero(gScore)) => gTargets = <<>>

(***************************************************************************)
(* Status and progress of the run (ApiSpec).                               *)
(***************************************************************************)
AllStagesDone ==
    \A k \in Range(TemplateSteps) :
        k \in DOMAIN progress /\ progress[k] = "done"

\* C28: when the status is completed each of the seven stages is done, and
\* the seven stages are all done only when the status is completed (the two
\* are written by one update); a failed run never has all seven done.
C28_CompletedIffAllDone ==
    /\ status = "completed" <=> AllStagesDone
    /\ status = "failed" => ~AllStagesDone

\* a completed run that was read after its completion
C28_Witness ==
    /\ status = "completed"
    /\ AllStagesDone
    /\ lastRead = "completed"
    /\ dbParams = <<"score_meta">>

====
